---- MODULE Spec2Model ----
(***************************************************************************)
(* Model of the roster extraction pipeline of src/src/data_reader.py:      *)
(* Person (standardize_role, merge_with) and DataReader.process_content    *)
(* with the stages it calls.  Strings are TLA+ strings; the Python string  *)
(* operations used by the code (lower, strip, `in`, re.finditer with       *)
(* literal keywords) are computed on them character by character.          *)
(***************************************************************************)
EXTENDS Integers, Sequences, FiniteSets

(***************************************************************************)
(* Bounds of the model.                                                    *)
(***************************************************************************)
MaxSentences == 2   \* sentences in one document's text
MaxCalls == 2       \* process_content calls made on one document
MaxPeople == 2      \* candidate records given to the deduplicator

(***************************************************************************)
(* Python string operations.                                               *)
(***************************************************************************)
UpperChars == "ABCDEFGHIJKLMNOPQRSTUVWXYZ"
LowerChars == "abcdefghijklmnopqrstuvwxyz"

CharAt(s, i) == SubSeq(s, i, i)

\* str.lower() on the letters that have a lowercase form.
LowerMap ==
    [c \in {CharAt(UpperChars, i) : i \in 1..Len(UpperChars)} |->
        CharAt(LowerChars, CHOOSE i \in 1..Len(UpperChars) : CharAt(UpperChars, i) = c)]

\* str.lower() on one character.
LowerChar(c) == IF c \in DOMAIN LowerMap THEN LowerMap[c] ELSE c

\* str.lower()
RECURSIVE Lower(_)
Lower(s) ==
    IF Len(s) = 0 THEN ""
    ELSE LowerChar(CharAt(s, 1)) \o Lower(SubSeq(s, 2, Len(s)))

\* str.strip(): leading and trailing blanks removed.
RECURSIVE LStrip(_)
LStrip(s) ==
    IF Len(s) > 0 /\ CharAt(s, 1) = " " THEN LStrip(SubSeq(s, 2, Len(s))) ELSE s

RECURSIVE RStrip(_)
RStrip(s) ==
    IF Len(s) > 0 /\ CharAt(s, Len(s)) = " " THEN RStrip(SubSeq(s, 1, Len(s) - 1)) ELSE s

Strip(s) == LStrip(RStrip(s))

\* Python `sub in s` for strings.
Contains(sub, s) ==
    \E i \in 0..(Len(s) - Len(sub)) : SubSeq(s, i + 1, i + Len(sub)) = sub

\* any(kw in s for kw in kws), kws a sequence of strings.
AnyIn(kws, s) == \E k \in 1..Len(kws) : Contains(kws[k], s)

(***************************************************************************)
(* Optional[Dict[str, str]]: None, or a dict (a function from keys to      *)
(* strings).  The empty dict and None are different values.                *)
(***************************************************************************)
EmptyDict == [k \in {} |-> ""]
None == [none |-> TRUE, map |-> EmptyDict]
Some(d) == [none |-> FALSE, map |-> d]
\* Python truthiness of an Optional[Dict]: neither None nor empty.
Truthy(ci) == ~ci.none /\ DOMAIN ci.map # {}
Keys(ci) == IF ci.none THEN {} ELSE DOMAIN ci.map
\* dict.update
DictUpdate(a, b) ==
    [k \in (DOMAIN a) \cup (DOMAIN b) |-> IF k \in DOMAIN b THEN b[k] ELSE a[k]]

(***************************************************************************)
(* Role sets and pattern tables.                                           *)
(***************************************************************************)
\* EXECUTIVE_ROLES with a board label listed among the executive labels.
EXECUTIVE_ROLES_with_director ==
    {"Chief Executive Officer", "Chief Operating Officer", "President",
     "Vice President", "Corporate Secretary", "Chief Financial Officer", "Director"}

EXECUTIVE_ROLES ==
    {"Chief Executive Officer", "Chief Operating Officer", "President",
     "Vice President", "Corporate Secretary", "Chief Financial Officer"}

BOARD_ROLES == {"Director", "Chairman", "Board Member"}

\* The pattern lists, each regular expression written as the lowercase
\* keyword it matches under re.IGNORECASE, \s+ as one blank.
contact_patterns ==
    <<"corporate office", "investor relations contact", "contact information",
      "contact us", "corporate contact">>

management_patterns ==
    <<"board of directors", "executive team", "management team",
      "leadership team", "senior management", "officers", "directors">>

role_patterns ==
    <<"ceo", "chief executive officer", "cfo", "chief financial officer",
      "coo", "chief operating officer", "president", "director", "chairman",
      "chairperson", "vice president", "treasurer", "secretary",
      "investor relations", "corporate secretary", "corporate communications",
      "corporate development", "corporate affairs", "corporate relations",
      "corporate contact", "contact person", "contact representative">>

\* Person.standardize_role's table, in order: the token, whether every
\* letter is matched in either case ([Cc][Ee][Oo]) or only the first
\* ([Dd]irector), and the canonical label.
role_mapping ==
    << [tok |-> "ceo", anycase |-> TRUE, std |-> "Chief Executive Officer"],
       [tok |-> "cfo", anycase |-> TRUE, std |-> "Chief Financial Officer"],
       [tok |-> "coo", anycase |-> TRUE, std |-> "Chief Operating Officer"],
       [tok |-> "vp", anycase |-> TRUE, std |-> "Vice President"],
       [tok |-> "ir", anycase |-> TRUE, std |-> "Investor Relations"],
       [tok |-> "director", anycase |-> FALSE, std |-> "Director"],
       [tok |-> "president", anycase |-> FALSE, std |-> "President"],
       [tok |-> "chairman", anycase |-> FALSE, std |-> "Chairman"],
       [tok |-> "chairperson", anycase |-> FALSE, std |-> "Chairman"],
       [tok |-> "treasurer", anycase |-> FALSE, std |-> "Treasurer"],
       [tok |-> "secretary", anycase |-> FALSE, std |-> "Secretary"] >>

\* re.match of one anchored table pattern against a role text.
RoleMatches(entry, text) ==
    IF entry.anycase
    THEN Lower(text) = entry.tok
    ELSE /\ Len(text) = Len(entry.tok)
         /\ LowerChar(CharAt(text, 1)) = CharAt(entry.tok, 1)
         /\ SubSeq(text, 2, Len(text)) = SubSeq(entry.tok, 2, Len(entry.tok))

\* re.search with re.IGNORECASE of the bare keyword of a table pattern.
RoleSearches(entry, text) == Contains(entry.tok, Lower(text))

\* standardize_role with the patterns searched for anywhere in the role, in
\* any letter case, instead of matched against the whole role.
standardize_role_searching(p) ==
    LET hits == {k \in 1..Len(role_mapping) : RoleSearches(role_mapping[k], Strip(p.role))}
    IN  IF hits = {} THEN p
        ELSE [p EXCEPT !.role = role_mapping[CHOOSE k \in hits : \A h \in hits : k <= h].std]

\* Person.standardize_role: the first matching table entry rewrites the role.
standardize_role(p) ==
    LET hits == {k \in 1..Len(role_mapping) : RoleMatches(role_mapping[k], Strip(p.role))}
    IN  IF hits = {} THEN p
        ELSE [p EXCEPT !.role = role_mapping[CHOOSE k \in hits : \A h \in hits : k <= h].std]

\* Person(name, role, contact_info)
Person(name, role, contact_info) ==
    [name |-> name, role |-> role, contact_info |-> contact_info]

\* merge_with taking the other record's contact map in place of its own.
merge_with_replacing(self, other) ==
    IF self.name = other.name
    THEN [self EXCEPT
             !.role = IF other.role \in EXECUTIVE_ROLES /\ self.role \in BOARD_ROLES
                      THEN other.role ELSE self.role,
             !.contact_info = IF Truthy(other.contact_info)
                              THEN other.contact_info ELSE self.contact_info]
    ELSE self

\* merge_with that unions the contact maps and leaves the role alone.
merge_with_keeping_role(self, other) ==
    IF self.name = other.name /\ Truthy(other.contact_info)
    THEN [self EXCEPT !.contact_info =
             Some(DictUpdate(IF Truthy(self.contact_info)
                             THEN self.contact_info.map ELSE EmptyDict,
                             other.contact_info.map))]
    ELSE self

\* merge_with taking the other record's role whenever the roles differ.
merge_with_taking_later_role(self, other) ==
    IF self.name = other.name
    THEN [self EXCEPT
             !.role = other.role,
             !.contact_info =
                 IF Truthy(other.contact_info)
                 THEN Some(DictUpdate(IF Truthy(self.contact_info)
                                      THEN self.contact_info.map ELSE EmptyDict,
                                      other.contact_info.map))
                 ELSE self.contact_info]
    ELSE self

\* Person.merge_with: the value of self after self.merge_with(other).
merge_with(self, other) ==
    IF self.name = other.name
    THEN LET role1 ==
                 IF self.role # other.role
                 THEN IF self.role \in EXECUTIVE_ROLES /\ other.role \in BOARD_ROLES
                      THEN self.role
                      ELSE IF other.role \in EXECUTIVE_ROLES /\ self.role \in BOARD_ROLES
                           THEN other.role
                           ELSE self.role
                 ELSE self.role
             ci1 ==
                 IF Truthy(other.contact_info)
                 THEN Some(DictUpdate(IF Truthy(self.contact_info)
                                      THEN self.contact_info.map ELSE EmptyDict,
                                      other.contact_info.map))
                 ELSE self.contact_info
         IN  [self EXCEPT !.role = role1, !.contact_info = ci1]
    ELSE self

\* Person.__eq__
PersonEq(a, b) == a.name = b.name /\ a.role = b.role

(***************************************************************************)
(* URL predicates.                                                         *)
(***************************************************************************)
excluded_keywords ==
    <<"press-release", "news", "blog", "announcement", "press", "update",
      "release", "media", "breaking", "newsroom", "reports", "financial-news",
      "corporate-news", "projects">>

\* The gate without url.lower().
is_excluded_url_case_sensitive(url) == AnyIn(excluded_keywords, url)

is_excluded_url(url) ==
    LET low == Lower(url) IN AnyIn(excluded_keywords, low)

executive_keywords == <<"team", "management", "leadership", "executive", "officer">>

\* is_executive_page without url.lower().
is_executive_page_case_sensitive(url) == AnyIn(executive_keywords, url)

is_executive_page(url) ==
    LET low == Lower(url) IN AnyIn(executive_keywords, low)

board_keywords == <<"board", "director", "chairman">>

is_board_page(url) ==
    LET low == Lower(url) IN AnyIn(board_keywords, low)

excluded_names ==
    <<"qualified person", "mine", "mines", "silver mine", "gold mine",
      "copper mine", "zinc mine", "ore", "ores", "mineral", "minerals",
      "mining", "quarry", "deposit", "resource", "resources", "exploration",
      "development", "corporation", "company", "inc", "llc", "limited",
      "group", "holdings", "press", "media", "news", "blog", "announcement",
      "report", "consultant", "advisor">>

MinNameLen == 3

\* is_valid_person without the test of the name's length.
is_valid_person_without_length(person) ==
    LET low == Lower(person.name)
    IN  ~AnyIn(excluded_names, low)

is_valid_person(person) ==
    LET low == Lower(person.name)
    IN  /\ ~AnyIn(excluded_names, low)
        /\ ~(Len(person.name) < MinNameLen)

(***************************************************************************)
(* Text.  A text is the sequence of its sentences as the spaCy pipeline    *)
(* (self.nlp) segments it; a sentence carries its characters and what the  *)
(* library calls find in it: the named entities (text, label, start_char)  *)
(* and the first match of the email and of the phone regular expression    *)
(* ("" when there is none).  Role and section keywords are searched in the *)
(* characters themselves.                                                  *)
(***************************************************************************)
NoMatch == ""

Ent(text, label, start_char) == [text |-> text, label |-> label, start_char |-> start_char]

Sentence(text, ents, email, phone) ==
    [text |-> text, ents |-> ents, email |-> email, phone |-> phone]

\* The text of a sequence of sentences: the sentences separated by a blank.
RECURSIVE JoinText(_)
JoinText(sents) ==
    IF Len(sents) = 0 THEN ""
    ELSE IF Len(sents) = 1 THEN sents[1].text
    ELSE sents[1].text \o " " \o JoinText(Tail(sents))

\* The entities of the whole text: those of its sentences, offsets shifted.
RECURSIVE JoinEnts(_, _)
JoinEnts(sents, offset) ==
    IF Len(sents) = 0 THEN <<>>
    ELSE [k \in 1..Len(sents[1].ents) |->
             [sents[1].ents[k] EXCEPT !.start_char = @ + offset]]
         \o JoinEnts(Tail(sents), offset + Len(sents[1].text) + 1)

\* re.search over the whole text: the first sentence's match that exists.
RECURSIVE FirstMatch(_, _)
FirstMatch(sents, field) ==
    IF Len(sents) = 0 THEN NoMatch
    ELSE IF sents[1][field] # NoMatch THEN sents[1][field]
    ELSE FirstMatch(Tail(sents), field)

\* The whole text as one section.
WholeText(sents) ==
    Sentence(JoinText(sents), JoinEnts(sents, 0),
             FirstMatch(sents, "email"), FirstMatch(sents, "phone"))

\* re.search(pattern, s, re.IGNORECASE) for a keyword pattern; low is
\* Lower(s).
Search(pattern, low) == Contains(pattern, low)

\* re.finditer(pattern, s, re.IGNORECASE): the non-overlapping matches, left
\* to right, as (start, matched text); low is Lower(s).
RECURSIVE FindIter(_, _, _, _)
FindIter(pattern, s, low, from) ==
    IF from + Len(pattern) > Len(low) THEN <<>>
    ELSE IF SubSeq(low, from + 1, from + Len(pattern)) = pattern
         THEN <<[start |-> from, group |-> SubSeq(s, from + 1, from + Len(pattern))]>>
              \o FindIter(pattern, s, low, from + Len(pattern))
         ELSE FindIter(pattern, s, low, from + 1)

\* get_relevant_sections without the break: a sentence is appended once for
\* every pattern it matches.
RECURSIVE SectionsPerPatternFrom(_, _)
SectionsPerPatternFrom(text, i) ==
    IF i > Len(text) THEN <<>>
    ELSE LET combined_patterns == contact_patterns \o management_patterns \o role_patterns
             low == Lower(text[i].text)
             hits == {k \in 1..Len(combined_patterns) : Search(combined_patterns[k], low)}
         IN  [k \in 1..Cardinality(hits) |-> text[i]] \o SectionsPerPatternFrom(text, i + 1)

get_relevant_sections_without_break(text) ==
    LET sections == SectionsPerPatternFrom(text, 1)
    IN  IF Len(sections) = 0 THEN <<WholeText(text)>> ELSE sections

\* DataReader.get_relevant_sections: the sentences that match a contact,
\* management or role pattern, or else the whole text.
get_relevant_sections(text) ==
    LET combined_patterns == contact_patterns \o management_patterns \o role_patterns
        hit(sent) == LET low == Lower(sent.text)
                     IN  \E k \in 1..Len(combined_patterns) :
                             Search(combined_patterns[k], low)
        sections == SelectSeq(text, hit)
    IN  IF Len(sections) = 0 THEN <<WholeText(text)>> ELSE sections

\* Every role pattern match of a section, in the order the two loops of
\* extract_people_from_section meet them.
RECURSIVE RoleMatchesFrom(_, _, _)
RoleMatchesFrom(k, s, low) ==
    IF k > Len(role_patterns) THEN <<>>
    ELSE FindIter(role_patterns[k], s, low, 0) \o RoleMatchesFrom(k + 1, s, low)

Abs(n) == IF n < 0 THEN 0 - n ELSE n

\* The distance test with <= : a later match at the same distance replaces
\* the best so far.
CloserOrEqual(distance, best_distance) == distance <= best_distance

\* The distance test of the role loop: a match replaces the best so far only
\* when it is strictly closer.
Closer(distance, best_distance) == distance < best_distance

\* The role loop: best is (found, distance, role) after the first k matches.
RECURSIVE ClosestRole(_, _, _, _)
ClosestRole(matches, k, start_char, best) ==
    IF k > Len(matches) THEN best
    ELSE LET distance == Abs(matches[k].start - start_char)
         IN  ClosestRole(matches, k + 1, start_char,
                 IF ~best.found \/ Closer(distance, best.distance)
                 THEN [found |-> TRUE, distance |-> distance,
                       role |-> Strip(matches[k].group)]
                 ELSE best)

\* The contact map of a section, passed to Person as built, without the
\* `if contact_info else None`.
SectionContactAsBuilt(section) ==
    LET d0 == EmptyDict
        d1 == IF section.email # NoMatch THEN DictUpdate(d0, [email |-> section.email]) ELSE d0
        d2 == IF section.phone # NoMatch THEN DictUpdate(d1, [phone |-> section.phone]) ELSE d1
    IN  Some(d2)

\* The contact map of a section, None when nothing was found.
SectionContact(section) ==
    LET d0 == EmptyDict
        d1 == IF section.email # NoMatch THEN DictUpdate(d0, [email |-> section.email]) ELSE d0
        d2 == IF section.phone # NoMatch THEN DictUpdate(d1, [phone |-> section.phone]) ELSE d1
    IN  IF DOMAIN d2 # {} THEN Some(d2) ELSE None

\* DataReader.extract_people_from_section
extract_people_from_section(section) ==
    LET matches == RoleMatchesFrom(1, section.text, Lower(section.text))
        persons == SelectSeq(section.ents, LAMBDA ent : ent.label = "PERSON")
        best(ent) == ClosestRole(matches, 1, ent.start_char,
                                 [found |-> FALSE, distance |-> 0, role |-> ""])
        withRole == SelectSeq(persons, LAMBDA ent : best(ent).found /\ best(ent).role # "")
    IN  [k \in 1..Len(withRole) |->
            standardize_role(Person(Strip(withRole[k].text), best(withRole[k]).role,
                                    SectionContact(section)))]

(***************************************************************************)
(* Deduplication, similarity merge, categorization.                        *)
(***************************************************************************)
\* The index in deduped of the record stored under key name, 0 if none.
KeyIndex(deduped, name) ==
    IF \E k \in 1..Len(deduped) : deduped[k].name = name
    THEN CHOOSE k \in 1..Len(deduped) : deduped[k].name = name
    ELSE 0

\* One iteration of the loop of deduplicate_people; deduped is the dict's
\* values in insertion order.
DedupStep(deduped, person) ==
    LET k == KeyIndex(deduped, person.name)
    IN  IF k # 0
        THEN [deduped EXCEPT ![k] = merge_with(deduped[k], person)]
        ELSE Append(deduped, person)

RECURSIVE DedupFrom(_, _, _)
DedupFrom(people, k, deduped) ==
    IF k > Len(people) THEN deduped
    ELSE DedupFrom(people, k + 1, DedupStep(deduped, people[k]))

\* DataReader.deduplicate_people
deduplicate_people(people) == DedupFrom(people, 1, <<>>)

\* The test of merge_similar_people on a pair: same role and one lowercased,
\* stripped name contained in the other.
Similar(p1, p2) ==
    /\ p1.role = p2.role
    /\ LET name1 == Strip(Lower(p1.name))
           name2 == Strip(Lower(p2.name))
       IN  Contains(name1, name2) \/ Contains(name2, name1)

\* The pair's body marking j as used only when the earlier name is the
\* shorter one.
MergePairKeepingLonger(people, used, i, j) ==
    LET p1 == people[i]
        p2 == people[j]
        name1 == Strip(Lower(p1.name))
        name2 == Strip(Lower(p2.name))
    IN  IF Similar(p1, p2)
        THEN IF Len(name1) < Len(name2)
             THEN [people |-> [people EXCEPT ![i] = merge_with(p1, p2)],
                   used |-> used \cup {j}]
             ELSE [people |-> [people EXCEPT ![j] = merge_with(p2, p1)],
                   used |-> used]
        ELSE [people |-> people, used |-> used]

\* The body of the inner loop of merge_similar_people for the pair (i, j):
\* the list (records are updated in place) and the used set after it.
MergePair(people, used, i, j) ==
    LET p1 == people[i]
        p2 == people[j]
        name1 == Strip(Lower(p1.name))
        name2 == Strip(Lower(p2.name))
    IN  IF Similar(p1, p2)
        THEN IF Len(name1) < Len(name2)
             THEN [people |-> [people EXCEPT ![i] = merge_with(p1, p2)],
                   used |-> used \cup {j}]
             ELSE [people |-> [people EXCEPT ![j] = merge_with(p2, p1)],
                   used |-> used \cup {j}]
        ELSE [people |-> people, used |-> used]

RECURSIVE MergeInner(_, _, _, _)
MergeInner(people, used, i, j) ==
    IF j > Len(people) THEN [people |-> people, used |-> used]
    ELSE LET st == MergePair(people, used, i, j)
         IN  MergeInner(st.people, st.used, i, j + 1)

RECURSIVE MergeOuter(_, _, _, _)
MergeOuter(people, used, i, merged) ==
    IF i > Len(people) THEN merged
    ELSE IF i \in used THEN MergeOuter(people, used, i + 1, merged)
    ELSE LET st == MergeInner(people, used, i, i + 1)
         IN  MergeOuter(st.people, st.used, i + 1, Append(merged, st.people[i]))

\* DataReader.merge_similar_people
merge_similar_people(people) == MergeOuter(people, {}, 1, <<>>)

\* [p for p in merged_people if self.is_valid_person(p)]
filter_people(people) == SelectSeq(people, is_valid_person)

\* `person in lst` with Person.__eq__
InList(person, lst) == \E k \in 1..Len(lst) : PersonEq(lst[k], person)

\* The loop body without the Chief Executive Officer rule.
CategorizeStepWithoutPromotion(acc, person, exec_page, board_page) ==
    LET in_exec_role == person.role \in EXECUTIVE_ROLES
        in_board_role == person.role \in BOARD_ROLES
    IN  IF ~is_valid_person(person) THEN acc
        ELSE IF exec_page /\ ~board_page
        THEN [acc EXCEPT !.executives = Append(@, person)]
        ELSE IF board_page /\ ~exec_page
        THEN [acc EXCEPT !.board_members = Append(@, person)]
        ELSE [executives |-> IF in_exec_role THEN Append(acc.executives, person)
                             ELSE acc.executives,
              board_members |-> IF in_board_role THEN Append(acc.board_members, person)
                                ELSE acc.board_members]

\* The loop body with role membership deciding on single-context pages too.
CategorizeStepByRole(acc, person, exec_page, board_page) ==
    LET in_exec_role == person.role \in EXECUTIVE_ROLES
        in_board_role == person.role \in BOARD_ROLES
    IN  IF ~is_valid_person(person) THEN acc
        ELSE IF exec_page /\ ~board_page
        THEN IF in_exec_role THEN [acc EXCEPT !.executives = Append(@, person)] ELSE acc
        ELSE IF board_page /\ ~exec_page
        THEN IF in_board_role THEN [acc EXCEPT !.board_members = Append(@, person)] ELSE acc
        ELSE LET e1 == IF in_exec_role THEN Append(acc.executives, person)
                       ELSE acc.executives
                 b1 == IF in_board_role THEN Append(acc.board_members, person)
                       ELSE acc.board_members
                 b2 == IF in_exec_role /\ person.role = "Chief Executive Officer"
                          /\ ~InList(person, b1)
                       THEN Append(b1, person) ELSE b1
             IN  [executives |-> e1, board_members |-> b2]

\* The loop body with the promotion run on every page and without the
\* `not in board_members` test.
CategorizeStepUnguardedPromotion(acc, person, exec_page, board_page) ==
    LET in_exec_role == person.role \in EXECUTIVE_ROLES
        in_board_role == person.role \in BOARD_ROLES
        placed ==
            IF exec_page /\ ~board_page
            THEN [acc EXCEPT !.executives = Append(@, person)]
            ELSE IF board_page /\ ~exec_page
            THEN [acc EXCEPT !.board_members = Append(@, person)]
            ELSE [executives |-> IF in_exec_role THEN Append(acc.executives, person)
                                 ELSE acc.executives,
                  board_members |-> IF in_board_role THEN Append(acc.board_members, person)
                                    ELSE acc.board_members]
    IN  IF ~is_valid_person(person) THEN acc
        ELSE IF person.role = "Chief Executive Officer"
        THEN [placed EXCEPT !.board_members = Append(@, person)]
        ELSE placed

\* One iteration of the loop of categorize_people.
CategorizeStep(acc, person, exec_page, board_page) ==
    LET in_exec_role == person.role \in EXECUTIVE_ROLES
        in_board_role == person.role \in BOARD_ROLES
    IN  IF ~is_valid_person(person) THEN acc
        ELSE IF exec_page /\ ~board_page
        THEN [acc EXCEPT !.executives = Append(@, person)]
        ELSE IF board_page /\ ~exec_page
        THEN [acc EXCEPT !.board_members = Append(@, person)]
        ELSE LET e1 == IF in_exec_role THEN Append(acc.executives, person)
                       ELSE acc.executives
                 b1 == IF in_board_role THEN Append(acc.board_members, person)
                       ELSE acc.board_members
                 b2 == IF in_exec_role /\ person.role = "Chief Executive Officer"
                          /\ ~InList(person, b1)
                       THEN Append(b1, person) ELSE b1
             IN  [executives |-> e1, board_members |-> b2]

RECURSIVE CategorizeFrom(_, _, _, _, _)
CategorizeFrom(people, k, acc, exec_page, board_page) ==
    IF k > Len(people) THEN acc
    ELSE CategorizeFrom(people, k + 1,
             CategorizeStep(acc, people[k], exec_page, board_page),
             exec_page, board_page)

\* DataReader.categorize_people
categorize_people(people, url) ==
    CategorizeFrom(people, 1, [executives |-> <<>>, board_members |-> <<>>],
                   is_executive_page(url), is_board_page(url))

(***************************************************************************)
(* Inputs: the documents process_content is called on.                     *)
(***************************************************************************)
SentCeoEmail ==
    Sentence("CEO John Smith: john@x.com",
             <<Ent("John Smith", "PERSON", 4)>>,
             "john@x.com", "")

SentDirectorPhone ==
    Sentence("John Smith, Director, 555-123-4567",
             <<Ent("John Smith", "PERSON", 0)>>,
             "", "555-123-4567")

SentShortName ==
    Sentence("Contact Director Smith at ir@x.com",
             <<Ent("Smith", "PERSON", 17)>>,
             "ir@x.com", "")

SentNotPeople ==
    Sentence("Gold Mine Treasurer Al of Acme",
             <<Ent("Gold Mine", "PERSON", 0), Ent("Al", "PERSON", 20), Ent("Acme", "ORG", 26)>>,
             "", "")

SentNoKeyword ==
    Sentence("Meet Bob Lee today",
             <<Ent("Bob Lee", "PERSON", 5)>>,
             "", "")

SentTwoPeople ==
    Sentence("CEO John Smith and Chairman Bob Lee",
             <<Ent("John Smith", "PERSON", 4), Ent("Bob Lee", "PERSON", 28)>>,
             "", "")

SentencePool ==
    {SentCeoEmail, SentDirectorPhone, SentShortName, SentNotPeople,
     SentNoKeyword, SentTwoPeople}

\* Texts of at most MaxSentences sentences; the empty text is "".
Texts == UNION {[1..n -> SentencePool] : n \in 0..MaxSentences}

Urls ==
    {"https://x.com/management", "https://x.com/board",
     "https://x.com/team/directors", "https://x.com/about",
     "https://x.com/news/2024", "https://x.com/Press-Release/team"}

\* structured_data: None, a dict without 'sections', and a dict whose
\* 'sections' entry is a list of text.
SectionsData(kind, items) == [kind |-> kind, items |-> items]

Structs ==
    {None,
     Some([title |-> "Acme"]),
     Some([sections |-> SectionsData("list", <<SentCeoEmail>>)])}

\* WebPageContent as read_json_file builds it: the object name is the URL.
WebPageContent(url, body_text, structured_data) ==
    [url |-> url, body_text |-> body_text, title |-> "Acme Corp",
     structured_data |-> structured_data, source_file |-> url \o ".json"]

Contents ==
    {WebPageContent(u, t, sd) : u \in Urls, t \in Texts, sd \in Structs}

(***************************************************************************)
(* process_content, one action per stage.                                  *)
(***************************************************************************)
VARIABLES
    content,          \* the WebPageContent given to process_content
    pc,               \* position in process_content
    sections,         \* sections_to_process
    idx,              \* index of the section the extraction loop is at
    all_people,       \* all_people
    deduped_people,   \* deduped_people
    merged_people,    \* merged_people
    filtered_people,  \* filtered_people
    result,           \* the ProcessedContent returned by the current call
    returned,         \* the ProcessedContent values of the earlier calls
    calls,            \* number of process_content calls started
    ran,              \* the stages the current call has run, in order
    reader,           \* the DataReader's role sets and pattern lists
    docs,             \* the documents the caller processes, in order
    candidate,        \* a Person whose role is standardized
    role_history,     \* the roles it had before each standardize_role call
    rows,             \* import_companies: the rows of the CSV file
    row_num,          \* import_companies: i, the number of the row to read
    companies,        \* import_companies: companies
    skipped,          \* import_companies: skipped
    executed,         \* import_companies: statements executed on the cursor
    committed,        \* import_companies: conn.commit() was called
    step,             \* import_companies: position in the script
    bucket,           \* read_json_file: the objects of the MinIO bucket
    temp_file,        \* read_json_file: the content of data/temp/temp.json
    read_pc,          \* read_json_file: each call's position
    data,             \* read_json_file: each call's data
    pending,          \* read_json_file: each call's exception or return in flight
    read_result       \* read_json_file: each call's returned value

pipelineVars == <<content, pc, sections, idx, all_people, deduped_people,
                  merged_people, filtered_people, result, returned, calls, ran>>

roleVars == <<candidate, role_history>>

importVars == <<rows, row_num, companies, skipped, executed, committed, step>>

readVars == <<bucket, temp_file, read_pc, data, pending, read_result>>

vars == <<pipelineVars, reader, docs, roleVars, importVars, readVars>>

ProcessedContent(url, title, secs, executives, board_members, source_file) ==
    [returned |-> TRUE, url |-> url, title |-> title, sections |-> secs,
     executives |-> executives, board_members |-> board_members,
     source_file |-> source_file]

\* No value returned yet.
NoResult ==
    [returned |-> FALSE, url |-> "", title |-> "", sections |-> <<>>,
     executives |-> <<>>, board_members |-> <<>>, source_file |-> ""]

\* An early return that does not copy the title.
EmptyContentNoTitle(c) == ProcessedContent(c.url, "", <<>>, <<>>, <<>>, c.source_file)

\* The early returns of process_content.
EmptyContent(c) == ProcessedContent(c.url, c.title, <<>>, <<>>, <<>>, c.source_file)

\* The text of a 'sections' entry: ' '.join over a dict's values or a list's
\* items, str() of anything else.
SectionsText(sections_data) ==
    CASE sections_data.kind = "dict" -> sections_data.items
      [] sections_data.kind = "list" -> sections_data.items
      [] OTHER -> sections_data.items

\* The text process_content works on: body_text, or, when that is empty, the
\* 'sections' entry of a non-empty structured_data.
SelectText(c) ==
    IF Len(c.body_text) = 0 /\ Truthy(c.structured_data)
    THEN IF "sections" \in DOMAIN c.structured_data.map
            /\ Len(c.structured_data.map["sections"].items) # 0
         THEN SectionsText(c.structured_data.map["sections"])
         ELSE c.body_text
    ELSE c.body_text

\* The content object after the text was selected: structured_data is popped
\* instead of read.
ContentAfterPop(c) ==
    IF Len(c.body_text) = 0 /\ Truthy(c.structured_data)
       /\ "sections" \in DOMAIN c.structured_data.map
    THEN [c EXCEPT !.structured_data =
             Some([k \in (DOMAIN c.structured_data.map) \ {"sections"} |->
                      c.structured_data.map[k]])]
    ELSE c

\* The content object after the text was selected: body_text and
\* structured_data.get('sections') are read, no field is assigned.
ContentAfterSelect(c) == c

\* The attributes of a DataReader after __init__: the class's role sets and
\* the instance's pattern lists.
DataReader ==
    [EXECUTIVE_ROLES |-> EXECUTIVE_ROLES,
     BOARD_ROLES |-> BOARD_ROLES,
     contact_patterns |-> contact_patterns,
     management_patterns |-> management_patterns,
     role_patterns |-> role_patterns]

\* No Person is being standardized.
NoPerson == Person("", "", None)

NoRoleCall ==
    /\ candidate = NoPerson
    /\ role_history = <<>>

\* No read_json_file call is running.
NoRead ==
    /\ bucket = <<>>
    /\ temp_file = <<>>
    /\ read_pc = <<>>
    /\ data = <<>>
    /\ pending = <<>>
    /\ read_result = <<>>

\* import_companies is not running.
NoImport ==
    /\ rows = <<>>
    /\ row_num = 2
    /\ companies = <<>>
    /\ skipped = <<>>
    /\ executed = <<>>
    /\ committed = FALSE
    /\ step = "idle"

Init ==
    /\ content \in Contents
    /\ reader = DataReader
    /\ docs = <<content>>
    /\ NoRoleCall
    /\ NoImport
    /\ NoRead
    /\ pc = "start"
    /\ sections = <<>>
    /\ idx = 1
    /\ all_people = <<>>
    /\ deduped_people = <<>>
    /\ merged_people = <<>>
    /\ filtered_people = <<>>
    /\ result = NoResult
    /\ returned = <<>>
    /\ calls = 1
    /\ ran = <<>>

\* The exclusion gate returns an empty ProcessedContent.
ReturnExcluded ==
    /\ UNCHANGED <<reader, docs, roleVars, importVars, readVars>>
    /\ pc = "start"
    /\ is_excluded_url(content.url)
    /\ result' = EmptyContent(content)
    /\ pc' = "done"
    /\ UNCHANGED <<content, sections, idx, all_people, deduped_people,
                   merged_people, filtered_people, returned, calls, ran>>

\* No text: an empty ProcessedContent.
ReturnEmpty ==
    /\ UNCHANGED <<reader, docs, roleVars, importVars, readVars>>
    /\ pc = "start"
    /\ ~is_excluded_url(content.url)
    /\ Len(SelectText(content)) = 0
    /\ content' = ContentAfterSelect(content)
    /\ result' = EmptyContent(content)
    /\ pc' = "done"
    /\ UNCHANGED <<sections, idx, all_people, deduped_people,
                   merged_people, filtered_people, returned, calls, ran>>

\* all_people is a list kept between calls instead of a local of the call.
PeopleListKept(previous) == previous

\* all_people = []: every call starts its own list, whatever an earlier call
\* collected.
NewPeopleList(previous) == <<>>

\* sections_to_process = self.get_relevant_sections(text); all_people = []
SplitSections ==
    /\ UNCHANGED <<reader, docs, roleVars, importVars, readVars>>
    /\ pc = "start"
    /\ ~is_excluded_url(content.url)
    /\ Len(SelectText(content)) # 0
    /\ content' = ContentAfterSelect(content)
    /\ sections' = get_relevant_sections(SelectText(content))
    /\ all_people' = NewPeopleList(all_people)
    /\ idx' = 1
    /\ pc' = "extract"
    /\ ran' = Append(ran, "get_relevant_sections")
    /\ UNCHANGED <<deduped_people, merged_people, filtered_people,
                   result, returned, calls>>

\* One iteration of the extraction loop.
ExtractSection ==
    /\ UNCHANGED <<reader, docs, roleVars, importVars, readVars>>
    /\ pc = "extract"
    /\ idx <= Len(sections)
    /\ all_people' = all_people \o extract_people_from_section(sections[idx])
    /\ idx' = idx + 1
    /\ ran' = Append(ran, "extract_people_from_section")
    /\ UNCHANGED <<content, pc, sections, deduped_people, merged_people,
                   filtered_people, result, returned, calls>>

\* extract_people_from_section raises (the recognizer or a regular
\* expression fails on the section): nothing in process_content catches it.
ExtractRaises ==
    /\ UNCHANGED <<reader, docs, roleVars, importVars, readVars>>
    /\ pc = "extract"
    /\ idx <= Len(sections)
    /\ pc' = "raised"
    /\ ran' = Append(ran, "extract_people_from_section")
    /\ UNCHANGED <<content, sections, idx, all_people, deduped_people,
                   merged_people, filtered_people, result, returned, calls>>

Deduplicate ==
    /\ UNCHANGED <<reader, docs, roleVars, importVars, readVars>>
    /\ pc = "extract"
    /\ idx > Len(sections)
    /\ deduped_people' = deduplicate_people(all_people)
    /\ pc' = "merge"
    /\ ran' = Append(ran, "deduplicate_people")
    /\ UNCHANGED <<content, sections, idx, all_people, merged_people,
                   filtered_people, result, returned, calls>>

MergeSimilar ==
    /\ UNCHANGED <<reader, docs, roleVars, importVars, readVars>>
    /\ pc = "merge"
    /\ merged_people' = merge_similar_people(deduped_people)
    /\ pc' = "filter"
    /\ ran' = Append(ran, "merge_similar_people")
    /\ UNCHANGED <<content, sections, idx, all_people, deduped_people,
                   filtered_people, result, returned, calls>>

FilterValid ==
    /\ UNCHANGED <<reader, docs, roleVars, importVars, readVars>>
    /\ pc = "filter"
    /\ filtered_people' = filter_people(merged_people)
    /\ pc' = "categorize"
    /\ ran' = Append(ran, "is_valid_person")
    /\ UNCHANGED <<content, sections, idx, all_people, deduped_people,
                   merged_people, result, returned, calls>>

\* categorize_people and the final return.
Categorize ==
    /\ UNCHANGED <<reader, docs, roleVars, importVars, readVars>>
    /\ pc = "categorize"
    /\ LET cat == categorize_people(filtered_people, content.url)
       IN  result' = ProcessedContent(content.url, content.title,
                         [k \in 1..Len(sections) |-> sections[k].text],
                         cat.executives, cat.board_members, content.source_file)
    /\ pc' = "done"
    /\ ran' = Append(ran, "categorize_people")
    /\ UNCHANGED <<content, sections, idx, all_people, deduped_people,
                   merged_people, filtered_people, returned, calls>>

\* The caller invokes process_content again on the same content.
Reinvoke ==
    /\ UNCHANGED <<reader, docs, roleVars, importVars, readVars>>
    /\ pc = "done"
    /\ calls < MaxCalls
    /\ returned' = Append(returned, result)
    /\ result' = NoResult
    /\ calls' = calls + 1
    /\ pc' = "start"
    /\ ran' = <<>>
    /\ UNCHANGED <<content, sections, idx, all_people, deduped_people,
                   merged_people, filtered_people>>

Next ==
    \/ ReturnExcluded
    \/ ReturnEmpty
    \/ SplitSections
    \/ ExtractSection
    \/ ExtractRaises
    \/ Deduplicate
    \/ MergeSimilar
    \/ FilterValid
    \/ Categorize
    \/ Reinvoke

Spec == Init /\ [][Next]_vars

(***************************************************************************)
(* The stages after extraction on any list of candidates.  The text is     *)
(* left open: process_content stands at the end of its extraction loop     *)
(* and all_people is any list of at most MaxPeople records with            *)
(* canonical roles.                                                        *)
(***************************************************************************)
NamePool == {"Smith", "John Smith", "Jo"}

RolePool == {"Chief Executive Officer", "Director", "Treasurer"}

ContactPool == {None, Some([email |-> "ir@x.com"]), Some([phone |-> "555-123-4567"])}

PersonPool == {Person(n, r, c) : n \in NamePool, r \in RolePool, c \in ContactPool}

PeopleLists == UNION {[1..n -> PersonPool] : n \in 0..MaxPeople}

\* The text that is left open.
Elided == Sentence("...", <<>>, NoMatch, NoMatch)

PageUrls == {u \in Urls : ~is_excluded_url(u)}

InitPeople ==
    /\ content \in {WebPageContent(u, <<Elided>>, None) : u \in PageUrls}
    /\ reader = DataReader
    /\ docs = <<content>>
    /\ NoRoleCall
    /\ NoImport
    /\ NoRead
    /\ pc = "extract"
    /\ sections = <<Elided>>
    /\ idx = 2
    /\ all_people \in PeopleLists
    /\ deduped_people = <<>>
    /\ merged_people = <<>>
    /\ filtered_people = <<>>
    /\ result = NoResult
    /\ returned = <<>>
    /\ calls = 1
    /\ ran = <<"get_relevant_sections", "extract_people_from_section">>

NextPeople ==
    \/ Deduplicate
    \/ MergeSimilar
    \/ FilterValid
    \/ Categorize

SpecPeople == InitPeople /\ [][NextPeople]_vars

(***************************************************************************)
(* The caller's loop (process_directory of src/src/main.py): one           *)
(* DataReader processes several documents one after the other; a call      *)
(* that raises is logged and the loop goes on to the next document.        *)
(***************************************************************************)
MaxDocs == 2        \* documents processed by one DataReader

DocPool ==
    { WebPageContent("https://x.com/management", <<SentCeoEmail>>, None),
      WebPageContent("https://x.com/board", <<SentDirectorPhone>>, None),
      WebPageContent("https://x.com/about", <<SentTwoPeople>>, None),
      WebPageContent("https://x.com/news/2024", <<SentCeoEmail>>, None),
      WebPageContent("https://x.com/about", <<>>, None),
      WebPageContent("https://x.com/team/directors", <<>>,
          Some([sections |-> SectionsData("list", <<SentCeoEmail>>)])) }

DocLists == UNION {[1..n -> DocPool] : n \in 1..MaxDocs}

\* The extraction loop of process_content over sections k, k + 1, ...
RECURSIVE ExtractFrom(_, _)
ExtractFrom(secs, k) ==
    IF k > Len(secs) THEN <<>>
    ELSE extract_people_from_section(secs[k]) \o ExtractFrom(secs, k + 1)

\* process_content as one function of its argument: the value a call on c
\* returns when nothing was processed before it.
process_content(c) ==
    IF is_excluded_url(c.url) \/ Len(SelectText(c)) = 0
    THEN EmptyContent(c)
    ELSE LET secs == get_relevant_sections(SelectText(c))
             filtered == filter_people(merge_similar_people(
                             deduplicate_people(ExtractFrom(secs, 1))))
             cat == categorize_people(filtered, c.url)
         IN  ProcessedContent(c.url, c.title,
                 [k \in 1..Len(secs) |-> secs[k].text],
                 cat.executives, cat.board_members, c.source_file)

InitDocs ==
    /\ docs \in DocLists
    /\ content = docs[1]
    /\ reader = DataReader
    /\ pc = "start"
    /\ sections = <<>>
    /\ idx = 1
    /\ all_people = <<>>
    /\ deduped_people = <<>>
    /\ merged_people = <<>>
    /\ filtered_people = <<>>
    /\ result = NoResult
    /\ returned = <<>>
    /\ calls = 1
    /\ ran = <<>>
    /\ NoRoleCall
    /\ NoImport
    /\ NoRead

\* The loop takes the next file: the call on the current document returned
\* or raised, and process_content is called on the next document.
NextDocument ==
    /\ pc \in {"done", "raised"}
    /\ calls < Len(docs)
    /\ returned' = Append(returned, result)
    /\ result' = NoResult
    /\ calls' = calls + 1
    /\ content' = docs[calls + 1]
    /\ pc' = "start"
    /\ ran' = <<>>
    /\ UNCHANGED <<sections, idx, all_people, deduped_people, merged_people,
                   filtered_people, reader, docs, roleVars, importVars, readVars>>

NextDocs ==
    \/ ReturnExcluded
    \/ ReturnEmpty
    \/ SplitSections
    \/ ExtractSection
    \/ ExtractRaises
    \/ Deduplicate
    \/ MergeSimilar
    \/ FilterValid
    \/ Categorize
    \/ NextDocument

SpecDocs == InitDocs /\ [][NextDocs]_vars

(***************************************************************************)
(* standardize_role applied again and again to one Person, for role texts  *)
(* in the letter cases and with the blanks and qualifiers a page can have. *)
(***************************************************************************)
MaxStandardize == 2     \* standardize_role calls made on one Person

RoleWords ==
    { "ceo", "CEO", "Ceo", "cfo", "CFO", "coo", "COO", "vp", "VP", "Vp", "ir", "IR",
      "director", "Director", "DIRECTOR", "president", "President", "PRESIDENT",
      "chairman", "Chairman", "chairperson", "Chairperson", "CHAIRPERSON",
      "treasurer", "Treasurer", "secretary", "Secretary",
      "Chief Executive Officer", "Chief Financial Officer", "Chief Operating Officer",
      "Vice President", "Investor Relations", "Managing Director", "Vice Chairman",
      "Board Member", "Founder" }

RoleTexts == {pre \o w \o suf : w \in RoleWords, pre \in {"", " "}, suf \in {"", " "}}

\* process_content is not running.
NoCall ==
    /\ content = WebPageContent("", <<>>, None)
    /\ docs = <<>>
    /\ reader = DataReader
    /\ pc = "idle"
    /\ sections = <<>>
    /\ idx = 1
    /\ all_people = <<>>
    /\ deduped_people = <<>>
    /\ merged_people = <<>>
    /\ filtered_people = <<>>
    /\ result = NoResult
    /\ returned = <<>>
    /\ calls = 0
    /\ ran = <<>>

InitRoles ==
    /\ candidate \in {Person("John Smith", text, None) : text \in RoleTexts}
    /\ role_history = <<>>
    /\ NoCall
    /\ NoImport
    /\ NoRead

\* person.standardize_role()
StandardizeRole ==
    /\ Len(role_history) < MaxStandardize
    /\ candidate' = standardize_role(candidate)
    /\ role_history' = Append(role_history, candidate.role)
    /\ UNCHANGED <<pipelineVars, reader, docs, importVars, readVars>>

NextRoles == StandardizeRole

SpecRoles == InitRoles /\ [][NextRoles]_vars

(***************************************************************************)
(* src/src/scripts/import_companies.py: the CSV rows are read into         *)
(* companies, inserted with execute_values, committed, and a sample is     *)
(* selected.  A statement is what cur.execute is called with.              *)
(***************************************************************************)
MaxRows == 2        \* rows of the CSV file, the header aside

\* An optional string: Python's None, or a str.
Null == [none |-> TRUE, value |-> ""]

Str(s) == [none |-> FALSE, value |-> s]

\* str.startswith
StartsWith(s, prefix) ==
    Len(s) >= Len(prefix) /\ SubSeq(s, 1, Len(prefix)) = prefix

\* str.replace for single characters.
RECURSIVE Replace(_, _, _)
Replace(s, old, new) ==
    IF Len(s) = 0 THEN ""
    ELSE (IF CharAt(s, 1) = old THEN new ELSE CharAt(s, 1))
             \o Replace(SubSeq(s, 2, Len(s)), old, new)

\* normalize_website_url without the url.strip().
normalize_website_url_unstripped(url) ==
    IF url.none \/ Len(url.value) = 0 THEN Null
    ELSE IF ~StartsWith(url.value, "http://") /\ ~StartsWith(url.value, "https://")
         THEN Str("https://" \o url.value)
         ELSE url

\* normalize_website_url
normalize_website_url(url) ==
    IF url.none \/ Len(url.value) = 0 THEN Null
    ELSE LET stripped == Strip(url.value)
         IN  IF Len(stripped) = 0 THEN Null
             ELSE IF ~StartsWith(stripped, "http://") /\ ~StartsWith(stripped, "https://")
                  THEN Str("https://" \o stripped)
                  ELSE Str(stripped)

\* The placeholder website of a company without one.
Placeholder(company_name) ==
    "http://placeholder/" \o Replace(Lower(company_name), " ", "-")

\* The website stored for a row that has a company name.
Website(row) ==
    LET website == normalize_website_url(row.Website)
    IN  IF website.none THEN Placeholder(row.CompanyName) ELSE website.value

\* The tuple appended to companies for a row.
Company(row) ==
    [website |-> Website(row),
     company_name |-> row.CompanyName,
     ticker |-> row.Ticker,
     exchange |-> row.Exchange,
     headquarters_location |-> Null,
     founded_date |-> Null,
     description |-> Null,
     officers |-> "[]",
     board_members |-> "[]",
     data_source |-> "{\"officers\": null, \"board_members\": null}"]

page_size == 100

\* psycopg2.extras.execute_values: one statement per page of at most
\* page_size tuples, none for an empty list.
RECURSIVE InsertStatements(_)
InsertStatements(argslist) ==
    IF Len(argslist) = 0 THEN <<>>
    ELSE IF Len(argslist) <= page_size
         THEN << [sql |-> "INSERT INTO mining_companies", values |-> argslist] >>
         ELSE << [sql |-> "INSERT INTO mining_companies",
                  values |-> SubSeq(argslist, 1, page_size)] >>
                  \o InsertStatements(SubSeq(argslist, page_size + 1, Len(argslist)))

SampleQuery == [sql |-> "SELECT id, company_name, website", values |-> <<>>]

\* The Website column of a row: missing, empty, blank, with and without a
\* scheme, with blanks around it.
WebsitePool ==
    { Null, Str(""), Str(" "), Str("https://www.company1.com"), Str("http://company4.com"),
      Str("www.company2.com"), Str(" company5.com "), Str("https://test3.com/ "),
      Str("HTTP://company6.com") }

CompanyNamePool == {"", "Company Three", "acme"}

RowPool ==
    {[Website |-> w, CompanyName |-> n, Ticker |-> "TST", Exchange |-> "NYSE"] :
        w \in WebsitePool, n \in CompanyNamePool}

RowLists == UNION {[1..n -> RowPool] : n \in 0..MaxRows}

InitImport ==
    /\ rows \in RowLists
    /\ row_num = 2
    /\ companies = <<>>
    /\ skipped = <<>>
    /\ executed = <<>>
    /\ committed = FALSE
    /\ step = "connect"
    /\ NoRead
    /\ NoCall
    /\ NoRoleCall

\* psycopg2.connect and conn.cursor()
Connect ==
    /\ step = "connect"
    /\ step' = "read"
    /\ UNCHANGED <<rows, row_num, companies, skipped, executed, committed>>
    /\ UNCHANGED <<pipelineVars, reader, docs, roleVars, readVars>>

\* psycopg2.connect raises: the except clause prints and calls sys.exit(1).
ConnectFails ==
    /\ step = "connect"
    /\ step' = "exit"
    /\ UNCHANGED <<rows, row_num, companies, skipped, executed, committed>>
    /\ UNCHANGED <<pipelineVars, reader, docs, roleVars, readVars>>

\* One iteration of the loop over csv.DictReader(f); row i of the file is
\* rows[i - 1], row 1 being the header.
ReadRow ==
    /\ step = "read"
    /\ row_num - 1 <= Len(rows)
    /\ LET row == rows[row_num - 1]
       IN  IF row.CompanyName = ""
           THEN /\ skipped' = Append(skipped, [row |-> row_num, msg |-> "Empty company name"])
                /\ companies' = companies
           ELSE /\ skipped' = IF normalize_website_url(row.Website).none
                              THEN Append(skipped, [row |-> row_num,
                                                    msg |-> "Using placeholder website"])
                              ELSE skipped
                /\ companies' = Append(companies, Company(row))
    /\ row_num' = row_num + 1
    /\ UNCHANGED <<rows, executed, committed, step>>
    /\ UNCHANGED <<pipelineVars, reader, docs, roleVars, readVars>>

\* execute_values(cur, insert_query, companies, page_size=100, fetch=True)
InsertValues ==
    /\ step = "read"
    /\ row_num - 1 > Len(rows)
    /\ executed' = executed \o InsertStatements(companies)
    /\ step' = "commit"
    /\ UNCHANGED <<rows, row_num, companies, skipped, committed>>
    /\ UNCHANGED <<pipelineVars, reader, docs, roleVars, readVars>>

\* conn.commit()
Commit ==
    /\ step = "commit"
    /\ committed' = TRUE
    /\ step' = "sample"
    /\ UNCHANGED <<rows, row_num, companies, skipped, executed>>
    /\ UNCHANGED <<pipelineVars, reader, docs, roleVars, readVars>>

\* cur.execute("SELECT id, company_name, website ...") and cur.fetchall()
SelectSample ==
    /\ step = "sample"
    /\ executed' = Append(executed, SampleQuery)
    /\ step' = "close"
    /\ UNCHANGED <<rows, row_num, companies, skipped, committed>>
    /\ UNCHANGED <<pipelineVars, reader, docs, roleVars, readVars>>

\* cur.close() and conn.close()
Close ==
    /\ step = "close"
    /\ step' = "done"
    /\ UNCHANGED <<rows, row_num, companies, skipped, executed, committed>>
    /\ UNCHANGED <<pipelineVars, reader, docs, roleVars, readVars>>

NextImport ==
    \/ Connect
    \/ ConnectFails
    \/ ReadRow
    \/ InsertValues
    \/ Commit
    \/ SelectSample
    \/ Close

SpecImport == InitImport /\ [][NextImport]_vars

(***************************************************************************)
(* deduplicate_people on candidates of one person: the name in two letter  *)
(* cases, two roles of each role set and two outside both, and contact     *)
(* maps that share a key with different values.                            *)
(***************************************************************************)
SameNamePool == {"John Smith", "JOHN SMITH"}

RoleClassPool ==
    {"Chief Executive Officer", "President", "Director", "Chairman",
     "Treasurer", "Investor Relations"}

EmailPool ==
    {None, Some([email |-> "ir@x.com"]),
     Some([email |-> "ceo@x.com", phone |-> "555-123-4567"])}

CandidatePool ==
    {Person(n, r, c) : n \in SameNamePool, r \in RoleClassPool, c \in EmailPool}

CandidateLists == UNION {[1..n -> CandidatePool] : n \in 0..MaxPeople}

InitDedup ==
    /\ content \in {WebPageContent(u, <<Elided>>, None) : u \in {"https://x.com/about"}}
    /\ reader = DataReader
    /\ docs = <<content>>
    /\ NoRoleCall
    /\ NoImport
    /\ NoRead
    /\ pc = "extract"
    /\ sections = <<Elided>>
    /\ idx = 2
    /\ all_people \in CandidateLists
    /\ deduped_people = <<>>
    /\ merged_people = <<>>
    /\ filtered_people = <<>>
    /\ result = NoResult
    /\ returned = <<>>
    /\ calls = 1
    /\ ran = <<"get_relevant_sections", "extract_people_from_section">>

NextDedup ==
    \/ Deduplicate
    \/ MergeSimilar

SpecDedup == InitDedup /\ [][NextDedup]_vars

(***************************************************************************)
(* The validator's filter and categorize_people on pages of every context, *)
(* with the keywords in several letter cases, for any merged list: the     *)
(* names are pairwise distinct, as deduplicate_people leaves them, and no  *)
(* name is contained in another.                                           *)
(***************************************************************************)
PagePool ==
    {"https://x.com/management", "https://x.com/Our-Team",
     "https://x.com/board", "https://x.com/BOARD-of-Directors",
     "https://x.com/team/directors", "https://x.com/about"}

PageNamePool == {"John Smith", "Bob Lee", "Al", "Gold Mine"}

PageRolePool == {"Chief Executive Officer", "President", "Director", "Treasurer"}

PagePersonPool == {Person(n, r, None) : n \in PageNamePool, r \in PageRolePool}

MergedLists ==
    {lst \in UNION {[1..n -> PagePersonPool] : n \in 0..MaxPeople} :
        \A i, j \in 1..Len(lst) : i # j => lst[i].name # lst[j].name}

InitPages ==
    /\ content \in {WebPageContent(u, <<Elided>>, None) : u \in PagePool}
    /\ reader = DataReader
    /\ docs = <<content>>
    /\ NoRoleCall
    /\ NoImport
    /\ NoRead
    /\ pc = "filter"
    /\ sections = <<Elided>>
    /\ idx = 2
    /\ merged_people \in MergedLists
    /\ all_people = merged_people
    /\ deduped_people = merged_people
    /\ filtered_people = <<>>
    /\ result = NoResult
    /\ returned = <<>>
    /\ calls = 1
    /\ ran = <<"get_relevant_sections", "extract_people_from_section",
               "deduplicate_people", "merge_similar_people">>

NextPages ==
    \/ FilterValid
    \/ Categorize

SpecPages == InitPages /\ [][NextPages]_vars

(***************************************************************************)
(* The section splitter and the extraction loop on texts whose sentences   *)
(* match several patterns, overlapping patterns, patterns at the same      *)
(* distance of a name, a section pattern only, or no pattern.              *)
(***************************************************************************)
SentTie ==
    Sentence("CFO Ann CEO", <<Ent("Ann", "PERSON", 4)>>, "", "")

SentVice ==
    Sentence("Vice President Bob Lee", <<Ent("Bob Lee", "PERSON", 15)>>, "", "")

SentTeam ==
    Sentence("Meet our Management Team", <<>>, "", "")

ExtractPool ==
    {SentTie, SentVice, SentTeam, SentTwoPeople, SentNoKeyword, SentCeoEmail}

ExtractTexts == UNION {[1..n -> ExtractPool] : n \in 1..MaxSentences}

InitExtract ==
    /\ content \in {WebPageContent("https://x.com/about", text, None) : text \in ExtractTexts}
    /\ reader = DataReader
    /\ docs = <<content>>
    /\ NoRoleCall
    /\ NoImport
    /\ NoRead
    /\ pc = "start"
    /\ sections = <<>>
    /\ idx = 1
    /\ all_people = <<>>
    /\ deduped_people = <<>>
    /\ merged_people = <<>>
    /\ filtered_people = <<>>
    /\ result = NoResult
    /\ returned = <<>>
    /\ calls = 1
    /\ ran = <<>>

NextExtract ==
    \/ SplitSections
    \/ ExtractSection

SpecExtract == InitExtract /\ [][NextExtract]_vars

(***************************************************************************)
(* deduplicate_people and merge_similar_people on groups of three records: *)
(* a name, a part of it at its start and a part at its end, with a role of *)
(* each role set and a role outside both.                                  *)
(***************************************************************************)
MaxGroup == 3       \* records given to the two merges

GroupNamePool == {"John Smith", "Jo", "Smith"}

GroupRolePool == {"Chief Executive Officer", "Director", "Treasurer"}

GroupPool == {Person(n, r, None) : n \in GroupNamePool, r \in GroupRolePool}

GroupLists == UNION {[1..n -> GroupPool] : n \in 0..MaxGroup}

InitGroup ==
    /\ content \in {WebPageContent(u, <<Elided>>, None) : u \in {"https://x.com/about"}}
    /\ reader = DataReader
    /\ docs = <<content>>
    /\ NoRoleCall
    /\ NoImport
    /\ NoRead
    /\ pc = "extract"
    /\ sections = <<Elided>>
    /\ idx = 2
    /\ all_people \in GroupLists
    /\ deduped_people = <<>>
    /\ merged_people = <<>>
    /\ filtered_people = <<>>
    /\ result = NoResult
    /\ returned = <<>>
    /\ calls = 1
    /\ ran = <<"get_relevant_sections", "extract_people_from_section">>

NextGroup ==
    \/ Deduplicate
    \/ MergeSimilar

SpecGroup == InitGroup /\ [][NextGroup]_vars

(***************************************************************************)
(* read_json_file called by two callers at once in one working directory:  *)
(* each call downloads its object to data/temp/temp.json, opens and parses *)
(* that file, and unlinks it; the steps of the two calls interleave.       *)
(***************************************************************************)
\* str.replace(old, new) on substrings.
RECURSIVE ReplaceAll(_, _, _)
ReplaceAll(s, old, new) ==
    IF Len(s) < Len(old) THEN s
    ELSE IF SubSeq(s, 1, Len(old)) = old
         THEN new \o ReplaceAll(SubSeq(s, Len(old) + 1, Len(s)), old, new)
         ELSE CharAt(s, 1) \o ReplaceAll(SubSeq(s, 2, Len(s)), old, new)

\* The percent escapes of the object names.
Escapes == [e \in {"%2F", "%3A"} |-> IF e = "%2F" THEN "/" ELSE ":"]

\* urllib.parse.unquote
RECURSIVE unquote(_)
unquote(s) ==
    IF Len(s) = 0 THEN ""
    ELSE IF Len(s) >= 3 /\ SubSeq(s, 1, 3) \in DOMAIN Escapes
         THEN Escapes[SubSeq(s, 1, 3)] \o unquote(SubSeq(s, 4, Len(s)))
         ELSE CharAt(s, 1) \o unquote(SubSeq(s, 2, Len(s)))

\* The text outside the tags of html; in_tag: the scan is inside <...>.
RECURSIVE GetText(_, _)
GetText(html, in_tag) ==
    IF Len(html) = 0 THEN ""
    ELSE LET ch == CharAt(html, 1)
             rest == SubSeq(html, 2, Len(html))
         IN  IF in_tag THEN GetText(rest, ch # ">")
             ELSE IF ch = "<" THEN GetText(rest, TRUE)
             ELSE ch \o GetText(rest, FALSE)

\* DataReader.clean_html
clean_html(html) == GetText(html, FALSE)

\* dict.get(key, default)
Get(d, key, default) == IF key \in DOMAIN d THEN d[key] ELSE default

\* dict.get(key) of a string value: None when the key is absent.
GetOptional(d, key) == IF key \in DOMAIN d THEN Str(d[key]) ELSE Null

\* The WebPageContent read_json_file builds from the parsed data.
ReadContent(object_name, d) ==
    LET url == unquote(ReplaceAll(object_name, ".json", ""))
        body0 == clean_html(Get(d, "body_text", ""))
        markdown_content == clean_html(Get(d, "markdown_content", ""))
        body_text == IF body0 = "" /\ markdown_content = "" /\ "content" \in DOMAIN d
                     THEN clean_html(d["content"])
                     ELSE body0
    IN  [url |-> url, body_text |-> body_text,
         markdown_content |-> markdown_content,
         meta_description |-> GetOptional(d, "meta_description"),
         title |-> GetOptional(d, "title"),
         structured_data |-> d, source_file |-> object_name]

\* The object each call is given.
ObjectNames == <<"x.com%2Fteam.json", "x.com%2Fboard.json">>

\* What each object holds when it parses.
ObjectData ==
    <<[body_text |-> "<p>CEO John Smith</p>", title |-> "Team"],
      [content |-> "<b>Director</b> Bob Lee"]>>

\* An object is absent from the bucket, UTF-8 JSON, JSON in bytes that are
\* not UTF-8, or not JSON.
ObjectKinds == {"absent", "json", "latin1", "bad"}

ReadCalls == DOMAIN ObjectNames

Buckets ==
    {[c \in ReadCalls |-> [kind |-> kinds[c], data |-> ObjectData[c]]] :
        kinds \in [ReadCalls -> ObjectKinds]}

NotReturned == [returned |-> FALSE, content |-> None]

Returned(value) == [returned |-> TRUE, content |-> value]

InitRead ==
    /\ NoCall
    /\ NoRoleCall
    /\ NoImport
    /\ bucket \in Buckets
    /\ temp_file = <<>>
    /\ read_pc = [c \in ReadCalls |-> "download"]
    /\ data = [c \in ReadCalls |-> None]
    /\ pending = [c \in ReadCalls |-> ""]
    /\ read_result = [c \in ReadCalls |-> NotReturned]

\* fget_object: the object replaces temp.json, or the download fails and
\* the call returns None.
Download ==
    \E c \in ReadCalls :
        /\ UNCHANGED <<pipelineVars, reader, docs, roleVars, importVars>>
        /\ read_pc[c] = "download"
        /\ IF bucket[c].kind = "absent"
           THEN /\ read_pc' = [read_pc EXCEPT ![c] = "returned"]
                /\ read_result' = [read_result EXCEPT ![c] = Returned(None)]
                /\ UNCHANGED temp_file
           ELSE /\ temp_file' = <<bucket[c]>>
                /\ read_pc' = [read_pc EXCEPT ![c] = "open"]
                /\ UNCHANGED read_result
        /\ UNCHANGED <<bucket, data, pending>>

\* open(temp_file, encoding='utf-8') and json.load: of whatever temp.json
\* holds now. A missing file raises FileNotFoundError, which only the
\* outermost handler catches.
OpenUtf8 ==
    \E c \in ReadCalls :
        /\ UNCHANGED <<pipelineVars, reader, docs, roleVars, importVars>>
        /\ read_pc[c] = "open"
        /\ IF Len(temp_file) = 0
           THEN /\ pending' = [pending EXCEPT ![c] = "raise"]
                /\ read_pc' = [read_pc EXCEPT ![c] = "exists"]
                /\ UNCHANGED data
           ELSE IF temp_file[1].kind = "json"
           THEN /\ data' = [data EXCEPT ![c] = Some(temp_file[1].data)]
                /\ read_pc' = [read_pc EXCEPT ![c] = "exists"]
                /\ UNCHANGED pending
           ELSE IF temp_file[1].kind = "bad"
           THEN /\ pending' = [pending EXCEPT ![c] = "return"]
                /\ read_pc' = [read_pc EXCEPT ![c] = "exists"]
                /\ UNCHANGED data
           ELSE /\ read_pc' = [read_pc EXCEPT ![c] = "open_latin1"]
                /\ UNCHANGED <<data, pending>>
        /\ UNCHANGED <<bucket, temp_file, read_result>>

\* The handler of UnicodeDecodeError: open(temp_file, encoding='latin-1')
\* and json.load; any failure returns None.
OpenLatin1 ==
    \E c \in ReadCalls :
        /\ UNCHANGED <<pipelineVars, reader, docs, roleVars, importVars>>
        /\ read_pc[c] = "open_latin1"
        /\ IF Len(temp_file) = 0 \/ temp_file[1].kind = "bad"
           THEN /\ pending' = [pending EXCEPT ![c] = "return"]
                /\ UNCHANGED data
           ELSE /\ data' = [data EXCEPT ![c] = Some(temp_file[1].data)]
                /\ UNCHANGED pending
        /\ read_pc' = [read_pc EXCEPT ![c] = "exists"]
        /\ UNCHANGED <<bucket, temp_file, read_result>>

\* finally: if temp_file.exists()
Exists ==
    \E c \in ReadCalls :
        /\ UNCHANGED <<pipelineVars, reader, docs, roleVars, importVars>>
        /\ read_pc[c] = "exists"
        /\ read_pc' = [read_pc EXCEPT ![c] = IF Len(temp_file) = 1 THEN "unlink" ELSE "build"]
        /\ UNCHANGED <<bucket, temp_file, data, pending, read_result>>

\* finally: temp_file.unlink(), of whatever file is there; FileNotFoundError
\* when it is gone since the test.
Unlink ==
    \E c \in ReadCalls :
        /\ UNCHANGED <<pipelineVars, reader, docs, roleVars, importVars>>
        /\ read_pc[c] = "unlink"
        /\ IF Len(temp_file) = 0
           THEN /\ pending' = [pending EXCEPT ![c] = "raise"]
                /\ UNCHANGED temp_file
           ELSE /\ temp_file' = <<>>
                /\ UNCHANGED pending
        /\ read_pc' = [read_pc EXCEPT ![c] = "build"]
        /\ UNCHANGED <<bucket, data, read_result>>

\* After the finally block: the pending return or exception ends the call
\* with None, otherwise the WebPageContent is built from data and returned.
BuildContent ==
    \E c \in ReadCalls :
        /\ UNCHANGED <<pipelineVars, reader, docs, roleVars, importVars>>
        /\ read_pc[c] = "build"
        /\ read_result' =
               [read_result EXCEPT ![c] =
                   IF pending[c] # "" THEN Returned(None)
                   ELSE Returned(Some(ReadContent(ObjectNames[c], data[c].map)))]
        /\ read_pc' = [read_pc EXCEPT ![c] = "returned"]
        /\ UNCHANGED <<bucket, temp_file, data, pending>>

NextRead ==
    \/ Download
    \/ OpenUtf8
    \/ OpenLatin1
    \/ Exists
    \/ Unlink
    \/ BuildContent

SpecRead == InitRead /\ [][NextRead]_vars

(***************************************************************************)
(* Properties.                                                             *)
(***************************************************************************)
AfterDedup == {"merge", "filter", "categorize", "done"}
AfterMerge == {"filter", "categorize", "done"}

Indices(lst) == 1..Len(lst)

InSomeList(person, res) ==
    InList(person, res.executives) \/ InList(person, res.board_members)

\* The URL holds an excluded keyword, compared case-insensitively.
HasExcludedKeyword(url) ==
    \E k \in 1..Len(excluded_keywords) : Contains(excluded_keywords[k], Lower(url))

\* Exactly one of the executive and the board context.
SingleContext(url) == is_executive_page(url) # is_board_page(url)

InRoleSets(person) == person.role \in EXECUTIVE_ROLES \cup BOARD_ROLES

\* C1: on every page type, every validated person whose role is "Chief
\* Executive Officer" is in both executives and board_members of the result.
C1_CeoInBothLists ==
    (pc = "done" /\ ~HasExcludedKeyword(content.url)) =>
        \A k \in Indices(filtered_people) :
            filtered_people[k].role = "Chief Executive Officer" =>
                /\ InList(filtered_people[k], result.executives)
                /\ InList(filtered_people[k], result.board_members)

\* C2 as stated: every validated person is in at least one of the two lists
\* categorize_people returns, whatever the role and the page context.
C2_NoValidatedPersonDropped ==
    pc = "done" =>
        \A k \in Indices(filtered_people) : InSomeList(filtered_people[k], result)

\* C2 as amended: every validated person is in at least one of the two
\* lists, unless the page has neither or both contexts and the person's role
\* is in neither role set; on the lists of the pipeline and on the list
\* before the validator's filter.
C2_ValidatedPersonKeptByContextOrRole ==
    pc = "done" =>
        LET direct == categorize_people(merged_people, content.url)
        IN  /\ \A k \in Indices(filtered_people) :
                   (SingleContext(content.url) \/ InRoleSets(filtered_people[k]))
                       => InSomeList(filtered_people[k], result)
            /\ \A k \in Indices(merged_people) :
                   (/\ is_valid_person(merged_people[k])
                    /\ SingleContext(content.url) \/ InRoleSets(merged_people[k]))
                       => InSomeList(merged_people[k], direct)

\* C2 witness: a validated person with a role outside both sets is kept on
\* an executive-only page.
C2_TreasurerKeptOnExecutivePage ==
    /\ pc = "done"
    /\ is_executive_page(content.url) /\ ~is_board_page(content.url)
    /\ \E k \in Indices(filtered_people) :
           /\ ~InRoleSets(filtered_people[k])
           /\ InList(filtered_people[k], result.executives)

\* The folded name of a is a proper substring of the folded name of b.
ProperSubName(a, b) ==
    LET na == Strip(Lower(a.name))
        nb == Strip(Lower(b.name))
    IN  na # nb /\ Contains(na, nb)

HasName(lst, name) == \E k \in Indices(lst) : lst[k].name = name

ContactKeys(person) == Keys(person.contact_info)

\* C4: merge_with keeps every contact key the record held; two records of
\* one name with disjoint keys merge to the union of the keys; and after
\* deduplicate_people the record of a name holds every key of every
\* candidate of that name.
C4_ContactKeysSurviveMerges ==
    /\ \A i, j \in Indices(all_people) :
           LET a == all_people[i]
               b == all_people[j]
               m == merge_with(a, b)
           IN  /\ ContactKeys(a) \subseteq ContactKeys(m)
               /\ (a.name = b.name /\ ContactKeys(a) \cap ContactKeys(b) = {})
                      => ContactKeys(m) = ContactKeys(a) \cup ContactKeys(b)
    /\ pc \in AfterDedup =>
           \A k \in Indices(all_people) :
               \E d \in Indices(deduped_people) :
                   /\ deduped_people[d].name = all_people[k].name
                   /\ ContactKeys(all_people[k]) \subseteq ContactKeys(deduped_people[d])

\* C4 witness: two candidates of one name, one with an email and one with a
\* phone, deduplicated to one record holding both keys.
C4_DisjointKeysUnioned ==
    /\ pc = "merge"
    /\ Len(all_people) = 2
    /\ all_people[1].name = all_people[2].name
    /\ ContactKeys(all_people[1]) = {"email"}
    /\ ContactKeys(all_people[2]) = {"phone"}
    /\ Len(deduped_people) = 1
    /\ ContactKeys(deduped_people[1]) = {"email", "phone"}

\* One of the two roles is an executive role and the other a board role.
ExecBoardPair(a, b) ==
    \/ a.role \in EXECUTIVE_ROLES /\ b.role \in BOARD_ROLES
    \/ b.role \in EXECUTIVE_ROLES /\ a.role \in BOARD_ROLES

ExecRoleOf(a, b) == IF a.role \in EXECUTIVE_ROLES THEN a.role ELSE b.role

\* C5: merging two records of one name, one with an executive role and one
\* with a board role, leaves the executive role and the union of the contact
\* keys, by merge_with and by deduplicate_people over the pair in either order.
C5_ExecutiveRoleWins ==
    /\ \A i, j \in Indices(all_people) :
           LET a == all_people[i]
               b == all_people[j]
               m == merge_with(a, b)
           IN  (a.name = b.name /\ ExecBoardPair(a, b))
                   => /\ m.role = ExecRoleOf(a, b)
                      /\ ContactKeys(m) = ContactKeys(a) \cup ContactKeys(b)
    /\ (/\ pc \in AfterDedup
        /\ Len(all_people) = 2
        /\ all_people[1].name = all_people[2].name
        /\ ExecBoardPair(all_people[1], all_people[2]))
           => /\ Len(deduped_people) = 1
              /\ deduped_people[1].role = ExecRoleOf(all_people[1], all_people[2])
              /\ ContactKeys(deduped_people[1])
                     = ContactKeys(all_people[1]) \cup ContactKeys(all_people[2])

\* C5 witness: the board-role record comes first, the executive-role record
\* second, and the surviving record has the executive role.
C5_BoardFirstExecutiveSecond ==
    /\ pc = "merge"
    /\ Len(all_people) = 2
    /\ all_people[1].name = all_people[2].name
    /\ all_people[1].role \in BOARD_ROLES
    /\ all_people[2].role \in EXECUTIVE_ROLES
    /\ Len(deduped_people) = 1
    /\ deduped_people[1].role = all_people[2].role

EmptyRosters(res) ==
    /\ res.returned
    /\ res.sections = <<>>
    /\ res.executives = <<>>
    /\ res.board_members = <<>>

\* C6: when the URL holds an excluded keyword in any letter case,
\* process_content returns empty sections, executives and board_members
\* whatever the text and structured_data, and no stage runs.
C6_ExcludedUrlReturnsEmptyBeforeAnyStage ==
    HasExcludedKeyword(content.url) =>
        /\ pc \in {"start", "done"}
        /\ ran = <<>>
        /\ pc = "done" => EmptyRosters(result)

\* C6 witness: a "Press-Release" URL with a text that names people returned
\* empty rosters.
C6_PressReleaseWithPeopleReturnedEmpty ==
    /\ pc = "done"
    /\ Contains("press-release", Lower(content.url))
    /\ \E k \in Indices(content.body_text) : Len(content.body_text[k].ents) > 0
    /\ EmptyRosters(result)

Unique(lst) ==
    \A i, j \in Indices(lst) : i < j => ~PersonEq(lst[i], lst[j])

\* C7: neither executives nor board_members of the returned ProcessedContent
\* holds two records with the same (name, role).
C7_NoDuplicateNameRole ==
    pc = "done" => Unique(result.executives) /\ Unique(result.board_members)

\* C7 witness: the sections yielded two candidates with one (name, role) and
\* the returned rosters are not empty.
C7_DuplicateCandidatesMerged ==
    /\ pc = "done"
    /\ \E i, j \in Indices(all_people) : i < j /\ PersonEq(all_people[i], all_people[j])
    /\ Len(result.executives) > 0
    /\ Len(result.board_members) > 0

\* C8: a later call of process_content on the same content returns a value
\* equal to the one every earlier call returned.
C8_SecondCallReturnsSameValue ==
    pc = "done" => \A k \in Indices(returned) : returned[k] = result

\* C8 witness: the second call returned, with people in the rosters taken
\* from the 'sections' entry of structured_data.
C8_SecondCallReturnedPeople ==
    /\ pc = "done"
    /\ Len(returned) >= 1
    /\ Len(content.body_text) = 0
    /\ Len(result.executives) > 0
    /\ Len(result.sections) > 0

\* C9: no exception of a section's extraction leaves process_content.
C9_NoExceptionEscapes == pc # "raised"

EmptyResultFor(c, res) ==
    /\ EmptyRosters(res)
    /\ res.url = c.url
    /\ res.title = c.title
    /\ res.source_file = c.source_file

\* C10 as stated: whenever body_text is empty, process_content returns,
\* without raising, empty sections and rosters with url, title and
\* source_file copied.
C10_EmptyBodyYieldsEmptyResult ==
    Len(content.body_text) = 0 =>
        /\ pc # "raised"
        /\ pc = "done" => EmptyResultFor(content, result)

\* structured_data supplies no 'sections' text.
NoSectionsText(c) ==
    \/ ~Truthy(c.structured_data)
    \/ "sections" \notin DOMAIN c.structured_data.map
    \/ Len(c.structured_data.map["sections"].items) = 0

\* C10 as amended: whenever body_text is empty and structured_data supplies
\* no 'sections' text, process_content returns, without raising and without
\* running a stage, empty sections and rosters with url, title and
\* source_file copied.
C10_NoTextYieldsEmptyResult ==
    (Len(content.body_text) = 0 /\ NoSectionsText(content)) =>
        /\ pc \in {"start", "done"}
        /\ pc = "done" => EmptyResultFor(content, result)

\* C10 witness: a page that is not excluded, with an empty body_text and a
\* structured_data without 'sections', returned the empty result.
C10_EmptyBodyReturnedEmpty ==
    /\ pc = "done"
    /\ ~HasExcludedKeyword(content.url)
    /\ Len(content.body_text) = 0
    /\ Truthy(content.structured_data)
    /\ EmptyResultFor(content, result)

ContactAbsentOrNonEmpty(p) ==
    p.contact_info.none \/ DOMAIN p.contact_info.map # {}

AllContactsAbsentOrNonEmpty(lst) ==
    \A k \in Indices(lst) : ContactAbsentOrNonEmpty(lst[k])

\* C12: every Person built by extract_people_from_section, every Person a
\* merge_with call leaves, and every Person in the lists of
\* deduplicate_people and merge_similar_people and in the result has
\* contact_info either None or a map with at least one key.
C12_ContactNeverEmptyMap ==
    /\ AllContactsAbsentOrNonEmpty(all_people)
    /\ \A i, j \in Indices(all_people) :
           ContactAbsentOrNonEmpty(merge_with(all_people[i], all_people[j]))
    /\ AllContactsAbsentOrNonEmpty(deduped_people)
    /\ AllContactsAbsentOrNonEmpty(merged_people)
    /\ AllContactsAbsentOrNonEmpty(result.executives)
    /\ AllContactsAbsentOrNonEmpty(result.board_members)

\* C12 witness: a candidate without contact_info was merged with a later
\* candidate of its name that has one, next to a record that stayed
\* without contact_info.
C12_AbsentContactMergedWithMap ==
    /\ pc \in AfterMerge
    /\ \E i, j \in Indices(all_people) :
           /\ i < j
           /\ all_people[i].name = all_people[j].name
           /\ all_people[i].contact_info = None
           /\ ContactKeys(all_people[j]) # {}
           /\ \E d \in Indices(deduped_people) :
                  /\ deduped_people[d].name = all_people[i].name
                  /\ ContactKeys(deduped_people[d]) = ContactKeys(all_people[j])
    /\ \E m \in Indices(merged_people) : merged_people[m].contact_info = None

\* C13: applying standardize_role twice gives the role that applying it
\* once gives: after the first call the role never changes again, and the
\* role a call produces is a role the next call leaves as it is.
C13_StandardizeRoleIdempotent ==
    /\ standardize_role(standardize_role(candidate)) = standardize_role(candidate)
    /\ \A k \in Indices(role_history) : k >= 2 => role_history[k] = candidate.role

\* C13 witness: "chairperson" was rewritten to "Chairman" by the first call
\* and a second call was made on the result.
C13_ChairpersonStandardizedTwice ==
    /\ Len(role_history) >= 2
    /\ role_history[1] = " chairperson"
    /\ role_history[2] = "Chairman"
    /\ candidate.role = "Chairman"

InBothRoleSets(p) == p.role \in EXECUTIVE_ROLES /\ p.role \in BOARD_ROLES

\* C14: the DataReader's EXECUTIVE_ROLES and BOARD_ROLES share no label: no
\* person's role is in both, at most one of the two precedence tests of
\* merge_with holds for a pair, and on a page that is not of a single
\* context categorize_people puts nobody but a Chief Executive Officer in
\* both lists.
C14_RoleInAtMostOneSet ==
    /\ reader.EXECUTIVE_ROLES \cap reader.BOARD_ROLES = {}
    /\ \A k \in Indices(all_people) : ~InBothRoleSets(all_people[k])
    /\ \A i, j \in Indices(all_people) :
           LET a == all_people[i]
               b == all_people[j]
           IN  ~(/\ a.role \in EXECUTIVE_ROLES /\ b.role \in BOARD_ROLES
                 /\ b.role \in EXECUTIVE_ROLES /\ a.role \in BOARD_ROLES)
    /\ pc = "done" =>
           \A k \in Indices(filtered_people) :
               LET p == filtered_people[k]
               IN  /\ ~InBothRoleSets(p)
                   /\ p.role # "Chief Executive Officer" =>
                          ~(InList(p, result.executives) /\ InList(p, result.board_members))

\* C14 witness: on a page that is not of a single context a person with a
\* board role went to board_members only and a person with an executive
\* role went to executives.
C14_DirectorOnlyOnBoard ==
    /\ pc = "done"
    /\ ~SingleContext(content.url)
    /\ \E k \in Indices(filtered_people) :
           /\ filtered_people[k].role \in EXECUTIVE_ROLES
           /\ InList(filtered_people[k], result.executives)
    /\ \E k \in Indices(filtered_people) :
           /\ filtered_people[k].role \in BOARD_ROLES
           /\ InList(filtered_people[k], result.board_members)
           /\ ~InList(filtered_people[k], result.executives)

\* The rows of the file read so far that have a company name.
NamedRows == SelectSeq(SubSeq(rows, 1, row_num - 2), LAMBDA row : row.CompanyName # "")

NoNamedRow == \A k \in Indices(rows) : rows[k].CompanyName = ""

\* C15: import_companies skips every row whose 'Company Name' is empty, and
\* when no row has a company name it executes no statement on the cursor
\* during the whole run.
C15_NoStatementWithoutNamedRow ==
    /\ Len(companies) = Len(NamedRows)
    /\ \A k \in Indices(companies) : companies[k].company_name # ""
    /\ NoNamedRow => executed = <<>>

HasScheme(url) == StartsWith(url, "http://") \/ StartsWith(url, "https://")

\* The Website column is missing, empty or blank.
BlankWebsite(row) == row.Website.none \/ Len(Strip(row.Website.value)) = 0

NormalizedTwiceAsOnce ==
    \A k \in Indices(rows) :
        LET once == normalize_website_url(rows[k].Website)
        IN  normalize_website_url(once) = once

\* C16 as stated: for every row with a company name the stored website is
\* the CSV value unchanged when it starts with http:// or https://, the CSV
\* value prefixed with https:// when it has no scheme, and the placeholder
\* of the company name when the CSV value is empty or blank; and
\* normalize_website_url leaves its own output unchanged.
C16_WebsiteStoredAsGiven ==
    /\ \A k \in Indices(companies) :
           LET row == NamedRows[k]
           IN  companies[k].website =
                   IF BlankWebsite(row) THEN Placeholder(row.CompanyName)
                   ELSE IF HasScheme(row.Website.value) THEN row.Website.value
                        ELSE "https://" \o row.Website.value
    /\ NormalizedTwiceAsOnce

\* C16 as amended: the stored website is the CSV value with the blanks
\* around it removed when that starts with http:// or https://, that
\* stripped value prefixed with https:// when it starts with neither, and
\* the placeholder of the company name when the CSV value is missing, empty
\* or blank; and normalize_website_url leaves its own output unchanged.
C16_WebsiteStoredStripped ==
    /\ \A k \in Indices(companies) :
           LET row == NamedRows[k]
           IN  companies[k].website =
                   IF BlankWebsite(row) THEN Placeholder(row.CompanyName)
                   ELSE IF HasScheme(Strip(row.Website.value)) THEN Strip(row.Website.value)
                        ELSE "https://" \o Strip(row.Website.value)
    /\ NormalizedTwiceAsOnce

\* C16 witness: the run ended with a website that had blanks around it
\* stored with a scheme and a blank website stored as the placeholder.
C16_StrippedAndPlaceholderStored ==
    /\ step = "done"
    /\ \E k \in Indices(companies) :
           /\ NamedRows[k].Website = Str(" company5.com ")
           /\ companies[k].website = "https://company5.com"
    /\ \E k \in Indices(companies) :
           /\ NamedRows[k].Website = Str(" ")
           /\ companies[k].website = "http://placeholder/company-three"

\* The first candidate of a name that holds a contact key.
FirstWithKey(name, key) ==
    CHOOSE k \in Indices(all_people) :
        /\ all_people[k].name = name /\ key \in ContactKeys(all_people[k])
        /\ \A h \in Indices(all_people) :
               (all_people[h].name = name /\ key \in ContactKeys(all_people[h])) => k <= h

\* C17: when deduplicate_people merges a later record into an earlier
\* record of its name, every contact key the earlier record had keeps its
\* value and the later record's value is taken only for the keys the
\* earlier one lacked: each key of an output record has the value of the
\* first candidate of the name that held it.
C17_EarlierValuesKept ==
    pc \in AfterDedup =>
        \A d \in Indices(deduped_people) :
            \A key \in ContactKeys(deduped_people[d]) :
                deduped_people[d].contact_info.map[key] =
                    all_people[FirstWithKey(deduped_people[d].name, key)].contact_info.map[key]

\* The name folded for case and surrounding whitespace.
Fold(name) == Strip(Lower(name))

\* C19: deduplicate_people groups the candidates by folded name: records
\* whose names differ only in letter case or whitespace end in one output
\* record, whatever their roles, so no two output records have one folded
\* name.
C19_OneRecordPerFoldedName ==
    pc \in AfterDedup =>
        \A i, j \in Indices(deduped_people) :
            i # j => Fold(deduped_people[i].name) # Fold(deduped_people[j].name)

\* Both roles in EXECUTIVE_ROLES, both in BOARD_ROLES, or both outside the
\* two sets.
SameRoleClass(r1, r2) ==
    \/ r1 \in EXECUTIVE_ROLES /\ r2 \in EXECUTIVE_ROLES
    \/ r1 \in BOARD_ROLES /\ r2 \in BOARD_ROLES
    \/ r1 \notin EXECUTIVE_ROLES \cup BOARD_ROLES /\ r2 \notin EXECUTIVE_ROLES \cup BOARD_ROLES

\* The candidates of a name.
Group(name) == {k \in Indices(all_people) : all_people[k].name = name}

First(group) == CHOOSE k \in group : \A h \in group : k <= h

\* C20: merging two records of one name whose different roles are both
\* executive, both board or both outside the two sets keeps the role of the
\* first-seen record and still merges the later record's contact keys; and
\* after deduplicate_people a name whose candidates are all of one such
\* class has the role of its first candidate and the keys of all of them.
C20_FirstSeenRoleRetained ==
    /\ \A i, j \in Indices(all_people) :
           LET a == all_people[i]
               b == all_people[j]
               m == merge_with(a, b)
           IN  (a.name = b.name /\ a.role # b.role /\ SameRoleClass(a.role, b.role))
                   => /\ m.role = a.role
                      /\ m.name = a.name
                      /\ ContactKeys(a) \cup ContactKeys(b) = ContactKeys(m)
    /\ pc \in AfterDedup =>
           \A d \in Indices(deduped_people) :
               LET g == Group(deduped_people[d].name)
               IN  (\A i, j \in g : SameRoleClass(all_people[i].role, all_people[j].role))
                       => /\ deduped_people[d].role = all_people[First(g)].role
                          /\ \A i \in g :
                                 ContactKeys(all_people[i]) \subseteq ContactKeys(deduped_people[d])

\* C20 witness: a President without contact_info was followed by a Chief
\* Executive Officer of the same name with an email and a phone; the record
\* stayed President and got both keys.
C20_PresidentKeptOverLaterCeo ==
    /\ pc \in AfterDedup
    /\ Len(all_people) >= 2
    /\ all_people[1] = Person("John Smith", "President", None)
    /\ all_people[2].name = "John Smith"
    /\ all_people[2].role = "Chief Executive Officer"
    /\ ContactKeys(all_people[2]) = {"email", "phone"}
    /\ deduped_people[1].role = "President"
    /\ ContactKeys(deduped_people[1]) = {"email", "phone"}

\* C18: when merge_similar_people merges two records of one role whose names
\* are in a substring relation, the record it retains holds every contact
\* key of both records.
C18_SimilarityMergeUnionsContact ==
    pc \in AfterMerge =>
        \A i, j \in Indices(deduped_people) :
            LET p1 == deduped_people[i]
                p2 == deduped_people[j]
            IN  (i < j /\ Similar(p1, p2)) =>
                    \E m \in Indices(merged_people) :
                        /\ merged_people[m].name \in {p1.name, p2.name}
                        /\ merged_people[m].role = p1.role
                        /\ ContactKeys(p1) \cup ContactKeys(p2)
                               \subseteq ContactKeys(merged_people[m])

\* The URL, lowercased, contains one of the keywords.
HasKeyword(kws, url) == \E kw \in kws : Contains(kw, Lower(url))

ExecutiveContext(url) ==
    HasKeyword({"team", "management", "leadership", "executive", "officer"}, url)

BoardContext(url) == HasKeyword({"board", "director", "chairman"}, url)

\* C21: on a URL with an executive keyword and no board keyword every
\* validated person is in executives whatever the role, and on a URL with a
\* board keyword and no executive keyword every validated person is in
\* board_members whatever the role; the keywords are looked for in the
\* whole URL, in any letter case.
C21_SingleContextIgnoresRole ==
    pc = "done" =>
        /\ (ExecutiveContext(content.url) /\ ~BoardContext(content.url)) =>
               \A k \in Indices(filtered_people) :
                   InList(filtered_people[k], result.executives)
        /\ (BoardContext(content.url) /\ ~ExecutiveContext(content.url)) =>
               \A k \in Indices(filtered_people) :
                   InList(filtered_people[k], result.board_members)

\* C21 witness: on a page whose executive keyword is capitalized a validated
\* Treasurer and a validated Director are in executives.
C21_TreasurerAndDirectorOnTeamPage ==
    /\ pc = "done"
    /\ content.url = "https://x.com/Our-Team"
    /\ \E i, j \in Indices(filtered_people) :
           /\ filtered_people[i].role = "Treasurer"
           /\ filtered_people[j].role = "Director"
           /\ InList(filtered_people[i], result.executives)
           /\ InList(filtered_people[j], result.executives)

\* The number of entries of a list equal to a person.
Occurrences(person, lst) == Cardinality({k \in Indices(lst) : PersonEq(lst[k], person)})

\* C22: when the URL has neither or both of the executive and the board
\* context, a validated person is in executives exactly when the role is in
\* EXECUTIVE_ROLES and in board_members exactly when the role is in
\* BOARD_ROLES or is "Chief Executive Officer", and is in each list at most
\* once.
C22_AmbiguousPageByRoleSet ==
    (pc = "done" /\ ExecutiveContext(content.url) = BoardContext(content.url)) =>
        \A k \in Indices(filtered_people) :
            LET p == filtered_people[k]
            IN  /\ InList(p, result.executives) <=> p.role \in EXECUTIVE_ROLES
                /\ InList(p, result.board_members) <=>
                       (p.role \in BOARD_ROLES \/ p.role = "Chief Executive Officer")
                /\ Occurrences(p, result.executives) <= 1
                /\ Occurrences(p, result.board_members) <= 1

\* C22 witness: on a page with both contexts a Chief Executive Officer is in
\* both lists, once in each, next to a Director who is in board_members only.
C22_CeoInBothDirectorOnBoard ==
    /\ pc = "done"
    /\ content.url = "https://x.com/team/directors"
    /\ \E i, j \in Indices(filtered_people) :
           /\ filtered_people[i].role = "Chief Executive Officer"
           /\ filtered_people[j].role = "Director"
           /\ Occurrences(filtered_people[i], result.executives) = 1
           /\ Occurrences(filtered_people[i], result.board_members) = 1
           /\ ~InList(filtered_people[j], result.executives)
           /\ InList(filtered_people[j], result.board_members)

\* Every place of a section where a role pattern matches: the pattern's
\* index in role_patterns and the start offset.
RoleHits(s) ==
    LET low == Lower(s)
    IN  {h \in [k : 1..Len(role_patterns), start : 0..Len(s)] :
            /\ h.start + Len(role_patterns[h.k]) <= Len(s)
            /\ SubSeq(low, h.start + 1, h.start + Len(role_patterns[h.k])) = role_patterns[h.k]}

HitText(s, h) == SubSeq(s, h.start + 1, h.start + Len(role_patterns[h.k]))

HitDistance(h, ent) == Abs(h.start - ent.start_char)

\* The loops meet h before g: an earlier pattern, or the same pattern
\* further left.
MetBefore(h, g) == h.k < g.k \/ (h.k = g.k /\ h.start < g.start)

\* The closest match of a name; of those at the same distance the one met
\* first.
ClosestHit(s, ent) ==
    CHOOSE h \in RoleHits(s) :
        \A g \in RoleHits(s) :
            \/ g = h
            \/ HitDistance(h, ent) < HitDistance(g, ent)
            \/ HitDistance(h, ent) = HitDistance(g, ent) /\ MetBefore(h, g)

PersonEnts(section) == SelectSeq(section.ents, LAMBDA ent : ent.label = "PERSON")

\* (name, role) of the candidates a section has to yield: one for each
\* person name when a role pattern matches in the section, none otherwise;
\* the role is the text of the closest match, which the Person
\* canonicalizes.
AttributedRoles(section) ==
    IF RoleHits(section.text) = {} THEN <<>>
    ELSE [k \in Indices(PersonEnts(section)) |->
             LET ent == PersonEnts(section)[k]
                 raw == Strip(HitText(section.text, ClosestHit(section.text, ent)))
             IN  <<Strip(ent.text), standardize_role(Person("", raw, None)).role>>]

RECURSIVE AttributedUpTo(_)
AttributedUpTo(n) ==
    IF n = 0 THEN <<>> ELSE AttributedUpTo(n - 1) \o AttributedRoles(sections[n])

\* C23: for each person name of a section the role loop selects the text of
\* the role pattern match whose start is closest to the name's start, of
\* several at the same distance the one met first in pattern list order;
\* the Person emitted has that role, and no Person is emitted when no role
\* pattern matches in the section.
C23_ClosestRoleFirstMetOnTies ==
    pc = "extract" =>
        /\ \A n \in Indices(sections) :
               \A k \in Indices(PersonEnts(sections[n])) :
                   LET s == sections[n].text
                       ent == PersonEnts(sections[n])[k]
                       best == ClosestRole(RoleMatchesFrom(1, s, Lower(s)), 1, ent.start_char,
                                           [found |-> FALSE, distance |-> 0, role |-> ""])
                   IN  IF RoleHits(s) = {} THEN ~best.found
                       ELSE /\ best.found
                            /\ best.role = Strip(HitText(s, ClosestHit(s, ent)))
                            /\ best.distance = HitDistance(ClosestHit(s, ent), ent)
        /\ [k \in Indices(all_people) |-> <<all_people[k].name, all_people[k].role>>]
               = AttributedUpTo(idx - 1)

\* C23 witness: in "CFO Ann CEO" both matches are 4 characters from the
\* name; CEO, the earlier pattern of the list, was attributed although CFO
\* comes first in the text; and a section without a role pattern yielded
\* nobody.
C23_TieWonByEarlierPattern ==
    /\ pc = "extract"
    /\ idx = 3
    /\ sections = <<SentTie, SentTeam>>
    /\ Len(all_people) = 1
    /\ all_people[1].name = "Ann"
    /\ all_people[1].role = "Chief Executive Officer"

\* A sentence matches a contact, management or role pattern.
MatchesSomePattern(sent) ==
    \E pattern \in {contact_patterns[k] : k \in Indices(contact_patterns)}
                  \cup {management_patterns[k] : k \in Indices(management_patterns)}
                  \cup {role_patterns[k] : k \in Indices(role_patterns)} :
        Contains(pattern, Lower(sent.text))

\* C25: for a non-empty text get_relevant_sections returns a non-empty
\* list: the sentences that match at least one pattern, in text order and
\* once each, or, when no sentence matches, the whole text alone.
C25_SectionsAreMatchingSentences ==
    pc = "extract" =>
        /\ Len(sections) >= 1
        /\ IF \E k \in Indices(content.body_text) : MatchesSomePattern(content.body_text[k])
           THEN sections = SelectSeq(content.body_text, MatchesSomePattern)
           ELSE sections = <<WholeText(content.body_text)>>

\* C25 witness: of two sentences the one matching two role patterns was
\* kept once and the one matching none was left out.
C25_OneOfTwoSentencesKept ==
    /\ pc = "extract"
    /\ content.body_text = <<SentNoKeyword, SentTwoPeople>>
    /\ sections = <<SentTwoPeople>>

\* The table of role tokens and their canonical labels.
CanonicalLabel ==
    [token \in {"ceo", "cfo", "coo", "vp", "ir", "director", "president", "chairman",
                "chairperson", "treasurer", "secretary"} |->
        CASE token = "ceo" -> "Chief Executive Officer"
          [] token = "cfo" -> "Chief Financial Officer"
          [] token = "coo" -> "Chief Operating Officer"
          [] token = "vp" -> "Vice President"
          [] token = "ir" -> "Investor Relations"
          [] token = "director" -> "Director"
          [] token = "president" -> "President"
          [] token = "chairman" -> "Chairman"
          [] token = "chairperson" -> "Chairman"
          [] token = "treasurer" -> "Treasurer"
          [] token = "secretary" -> "Secretary"]

\* C24: a role text that equals a table token up to letter case gets the
\* token's canonical label from standardize_role, and a role text that
\* merely contains a token is left as it was.
C24_TokenInAnyCaseCanonicalized ==
    Len(role_history) >= 1 =>
        LET text == Strip(role_history[1])
            low == Lower(text)
        IN  IF low \in DOMAIN CanonicalLabel
            THEN candidate.role = CanonicalLabel[low]
            ELSE (\E token \in DOMAIN CanonicalLabel : Contains(token, low))
                     => candidate.role = role_history[1]

\* The place of a stage in the stages the current call has run.
Pos(stage) == CHOOSE k \in Indices(ran) : ran[k] = stage

\* The name has at least 3 characters and, lowercased, contains no denylist
\* token.
PassesValidation(p) ==
    /\ Len(p.name) >= 3
    /\ \A k \in Indices(excluded_names) : ~Contains(excluded_names[k], Lower(p.name))

\* C26: the validator runs after deduplicate_people and
\* merge_similar_people, on the merged list, and before categorize_people;
\* and every person in executives and board_members of the returned
\* ProcessedContent has a name of at least 3 characters that contains no
\* denylist token.
C26_ValidatedAfterMergesBeforeCategorization ==
    /\ pc = "categorize" =>
           /\ Pos("deduplicate_people") < Pos("merge_similar_people")
           /\ Pos("merge_similar_people") < Pos("is_valid_person")
           /\ ran[Len(ran)] = "is_valid_person"
           /\ filtered_people = SelectSeq(merged_people, PassesValidation)
    /\ (pc = "done" /\ Len(ran) > 0) =>
           /\ Pos("is_valid_person") < Pos("categorize_people")
           /\ ran[Len(ran)] = "categorize_people"
    /\ pc = "done" =>
           /\ \A k \in Indices(result.executives) : PassesValidation(result.executives[k])
           /\ \A k \in Indices(result.board_members) : PassesValidation(result.board_members[k])
    /\ \A k \in Indices(returned) :
           /\ \A e \in Indices(returned[k].executives) :
                  PassesValidation(returned[k].executives[e])
           /\ \A b \in Indices(returned[k].board_members) :
                  PassesValidation(returned[k].board_members[b])

\* C26 witness: the merged list held a name of 2 characters and a name with
\* a denylist token; neither is in the result, a valid person is.
C26_ShortAndDenylistedNamesDropped ==
    /\ pc = "done"
    /\ \E k \in Indices(merged_people) : Len(merged_people[k].name) < 3
    /\ \E k \in Indices(merged_people) : Contains("mine", Lower(merged_people[k].name))
    /\ Len(filtered_people) >= 1
    /\ Len(result.executives) + Len(result.board_members) >= 1

\* Two records share a role and the lowercased, stripped name of one is a
\* substring of the other's.
SimilarPair(a, b) ==
    /\ a.role = b.role
    /\ \/ Contains(Strip(Lower(a.name)), Strip(Lower(b.name)))
       \/ Contains(Strip(Lower(b.name)), Strip(Lower(a.name)))

DistinctNames(lst) ==
    \A i, j \in Indices(lst) : i # j => lst[i].name # lst[j].name

\* C27: for a list of records with pairwise distinct names, the result of
\* merge_similar_people holds no two records with the same role and one
\* name contained in the other, and merge_similar_people applied to the
\* result returns the same records.
C27_SimilarityPassIsFixedPoint ==
    (pc = "filter" /\ DistinctNames(deduped_people)) =>
        /\ \A i, j \in Indices(merged_people) :
               i # j => ~SimilarPair(merged_people[i], merged_people[j])
        /\ merge_similar_people(merged_people) = merged_people

\* C27 witness: three records of one role, the middle one's name containing
\* the two others', which do not contain each other; the pass keeps two.
C27_ChainOfThreeLeavesTwo ==
    /\ pc = "filter"
    /\ Len(deduped_people) = 3
    /\ DistinctNames(deduped_people)
    /\ SimilarPair(deduped_people[1], deduped_people[2])
    /\ SimilarPair(deduped_people[2], deduped_people[3])
    /\ ~SimilarPair(deduped_people[1], deduped_people[3])
    /\ Len(merged_people) = 2

\* The records of lst that carry the name.
WithName(lst, name) == SelectSeq(lst, LAMBDA p : p.name = name)

\* C28: when the records of one name given to deduplicate_people include a
\* role of EXECUTIVE_ROLES and a role of BOARD_ROLES, in any order and with
\* other roles among them, the surviving record of that name has a role of
\* EXECUTIVE_ROLES.
C28_ExecutiveRoleSurvivesGroup ==
    pc = "merge" =>
        \A k \in Indices(deduped_people) :
            LET group == WithName(all_people, deduped_people[k].name)
            IN  (/\ \E g \in Indices(group) : group[g].role \in EXECUTIVE_ROLES
                 /\ \E g \in Indices(group) : group[g].role \in BOARD_ROLES)
                    => deduped_people[k].role \in EXECUTIVE_ROLES

\* C29: when merge_similar_people merges a record whose name passes
\* is_valid_person with a record of the same role whose name fails it, the
\* valid record is the survivor and is in the list the validator's filter
\* hands to categorize_people.
C29_ValidRecordSurvivesMerge ==
    pc = "categorize" =>
        \A i, j \in Indices(deduped_people) :
            (/\ i # j
             /\ SimilarPair(deduped_people[i], deduped_people[j])
             /\ PassesValidation(deduped_people[i])
             /\ ~PassesValidation(deduped_people[j]))
                => \E k \in Indices(filtered_people) :
                       filtered_people[k].name = deduped_people[i].name

\* C30: two read_json_file calls for different objects, interleaved at the
\* download, open/parse and unlink steps, do not interfere: each call
\* returns the content of its own object, and None only when its own
\* object cannot be downloaded or parsed.
C30_EachReadReturnsItsOwnObject ==
    \A c \in DOMAIN read_result :
        read_result[c].returned =>
            IF bucket[c].kind \in {"json", "latin1"}
            THEN read_result[c].content =
                     Some(ReadContent(ObjectNames[c], bucket[c].data))
            ELSE read_result[c].content = None

====
